---- MODULE Spec2Model ----
(***************************************************************************)
(* A model of the rulebook library: the document repository, the schema    *)
(* validated parser, the cross-reference validator, the serializer and the *)
(* card/prose generator, together with the "make" pipeline of the CLI.      *)
(*                                                                         *)
(* Strings that the code inspects with regular expressions (references,    *)
(* aspect ids, level ids, context keys) are sequences of one-character     *)
(* strings, so that matching and splitting are computed, not assumed.      *)
(* An optional field of a document is a key that is or is not in the       *)
(* DOMAIN of the record; the repository's nullable index is a sequence of  *)
(* length 0 or 1.                                                          *)
(***************************************************************************)
EXTENDS Integers, Sequences, FiniteSets, TLC

VARIABLES
    index,      \* Rulebook.index: <<>> (null) or <<artifact>>
    aspects,    \* Rulebook.aspects: sequence of artifacts
    res,        \* what the last operation returned or raised
    exported,   \* the JSON text returned by the last export, with the repository it was taken from
    input,      \* what the make command finds: source path, INDEX.yaml, aspect files, format
    pc,         \* position of the make pipeline
    log,        \* stages the make pipeline has run, in order
    html        \* the root Generator of nested text

vars == <<index, aspects, res, exported, input, pc, log, html>>

(***************************************************************************)
(* Bounds of the model.                                                    *)
(***************************************************************************)
MaxAspects == 2
NumLevels == 3
MaxFiles == 2
MaxBuild == 4
MaxYaml == 3
MaxPath == 2

(***************************************************************************)
(* Characters and string helpers.                                          *)
(***************************************************************************)
Lower == {"a","b","c","d","e","f","g","h","i","j","k","l","m",
          "n","o","p","q","r","s","t","u","v","w","x","y","z"}
Upper == {"A","B","C","D","E","F","G","H","I","J","K","L","M",
          "N","O","P","Q","R","S","T","U","V","W","X","Y","Z"}
Digit == {"0","1","2","3","4","5","6","7","8","9"}

\* [A-Za-z]
IsAlpha(c) == c \in Lower \cup Upper
\* [A-Za-z0-9_-]
IsIdChar(c) == c \in Lower \cup Upper \cup Digit \cup {"_", "-"}
\* the regular expression "." : any character but a line terminator
IsDot(c) == c \notin {"\n", "\r"}

Tail2(s, n) == SubSeq(s, n + 1, Len(s))
StartsWith(s, p) == Len(s) >= Len(p) /\ SubSeq(s, 1, Len(p)) = p
\* position of the first / last occurrence of c in s, 0 when there is none
FirstIdx(s, c) ==
    IF \E i \in 1..Len(s) : s[i] = c
    THEN CHOOSE i \in 1..Len(s) : s[i] = c /\ \A j \in 1..(i - 1) : s[j] # c
    ELSE 0
All(s, P(_)) == \A i \in 1..Len(s) : P(s[i])

RECURSIVE Split(_, _)
\* String.prototype.split on a one-character separator
Split(s, c) ==
    LET i == FirstIdx(s, c)
    IN  IF i = 0 THEN <<s>>
        ELSE <<SubSeq(s, 1, i - 1)>> \o Split(Tail2(s, i), c)

RECURSIVE Join(_, _)
\* Array.prototype.join
Join(ss, sep) ==
    IF Len(ss) = 0 THEN <<>>
    ELSE IF Len(ss) = 1 THEN ss[1]
    ELSE ss[1] \o sep \o Join(Tail(ss), sep)

Has(r, k) == k \in DOMAIN r

sCtx    == <<"c","t","x",":">>
sAspect == <<"a","s","p","e","c","t",":">>
sHttp   == <<"h","t","t","p">>
sMd     == <<"m","d",":">>
sLength == <<"l","e","n","g","t","h">>

(***************************************************************************)
(* Reference grammar (rulebook-schema.ts) and the matches of the parser.   *)
(***************************************************************************)
\* [A-Za-z][A-Za-z0-9_-]*
IsSegment(seg) == Len(seg) >= 1 /\ IsAlpha(seg[1]) /\ All(seg, IsIdChar)

\* the match of /^ctx:(seg(?:\.seg)*)(?:#(.+))?$/; the path holds no "#", so
\* the fragment, if any, starts at the first "#"
MatchCtx(s) ==
    LET rest == Tail2(s, Len(sCtx))
        h    == FirstIdx(rest, "#")
        path == IF h = 0 THEN rest ELSE SubSeq(rest, 1, h - 1)
        frag == IF h = 0 THEN <<>> ELSE Tail2(rest, h)
        segs == Split(path, ".")
    IN  [ ok   |-> /\ StartsWith(s, sCtx)
                   /\ \A i \in 1..Len(segs) : IsSegment(segs[i])
                   /\ (h # 0 => Len(frag) >= 1 /\ All(frag, IsDot)),
          ref  |-> path,
          frag |-> frag ]

\* the match of /^aspect:([A-Za-z0-9_-]+)(?:#(.+))?$/
MatchAspect(s) ==
    LET rest == Tail2(s, Len(sAspect))
        h    == FirstIdx(rest, "#")
        id   == IF h = 0 THEN rest ELSE SubSeq(rest, 1, h - 1)
        sub  == IF h = 0 THEN <<>> ELSE Tail2(rest, h)
    IN  [ ok     |-> /\ StartsWith(s, sAspect)
                     /\ Len(id) >= 1 /\ All(id, IsIdChar)
                     /\ (h # 0 => Len(sub) >= 1 /\ All(sub, IsDot)),
          id     |-> id,
          hasSub |-> h # 0,
          sub    |-> sub ]

RefCtx(s) == MatchCtx(s).ok
RefAspect(s) == MatchAspect(s).ok
\* /^https?:.+$/
RefURL(s) ==
    LET r1 == Tail2(s, Len(sHttp))
        r2 == IF Len(r1) >= 1 /\ r1[1] = "s" THEN Tail(r1) ELSE r1
    IN  /\ StartsWith(s, sHttp)
        /\ Len(r2) >= 2 /\ r2[1] = ":"
        /\ All(Tail(r2), IsDot)
\* /^md:.+$/
RefMD(s) == StartsWith(s, sMd) /\ Len(s) > Len(sMd) /\ All(Tail2(s, Len(sMd)), IsDot)

(***************************************************************************)
(* Schema validation (rulebook-schema.ts).  A document object is a record  *)
(* whose DOMAIN is the set of keys present.  The nested Editing, Validity  *)
(* and Author objects are kept as a token, "ok" when they satisfy their    *)
(* schema and "bad" when they do not.                                      *)
(***************************************************************************)
AssessKeys == {"MUST", "SHOULD", "MAY", "WONT"}
RelationKeys == {"Scope", "Support", "Demand", "Context", "Responsible", "See-Also"}
LevelKeys == 0..9     \* "Level-0" .. "Level-9"

AssessStatement(st) ==
    /\ DOMAIN st \subseteq AssessKeys
    /\ \A k \in DOMAIN st : RefCtx(st[k])

AssessmentLevel(lv) ==
    /\ {"Id", "What"} \subseteq DOMAIN lv
    /\ DOMAIN lv \subseteq {"Id", "What", "Why", "Assess", "SotA", "Optimize"}
    /\ Has(lv, "Assess") => \A i \in 1..Len(lv.Assess) : AssessStatement(lv.Assess[i])

\* an Assessment object is the sequence of its (key, level) entries in key
\* insertion order; the keys of an object are distinct
Assessment(ass) ==
    /\ \A i \in 1..Len(ass) : ass[i].key \in LevelKeys /\ AssessmentLevel(ass[i].lv)
    /\ \A i, j \in 1..Len(ass) : ass[i].key = ass[j].key => i = j

Relation(rel) ==
    /\ DOMAIN rel \subseteq RelationKeys
    /\ Has(rel, "Scope") => RefAspect(rel["Scope"])
    /\ \A k \in {"Support", "Demand", "Context", "Responsible"} :
          Has(rel, k) => RefCtx(rel[k])
    /\ Has(rel, "See-Also") =>
          \/ RefCtx(rel["See-Also"])
          \/ RefAspect(rel["See-Also"])
          \/ RefURL(rel["See-Also"])
          \/ RefMD(rel["See-Also"])

AspectSchema(obj) ==
    /\ {"Id", "Name", "Objective", "Assessment"} \subseteq DOMAIN obj
    /\ DOMAIN obj \subseteq {"Editing", "Validity", "Id", "Name", "Icons",
                             "Objective", "Assessment", "Relations"}
    /\ Has(obj, "Editing") => obj.Editing = "ok"
    /\ Has(obj, "Validity") => obj.Validity = "ok"
    /\ Assessment(obj.Assessment)
    /\ Has(obj, "Relations") => \A i \in 1..Len(obj.Relations) : Relation(obj.Relations[i])

IndexSchema(obj) ==
    /\ {"Editing", "Validity", "Id", "Name", "Version", "Author",
        "Description", "Context"} \subseteq DOMAIN obj
    /\ DOMAIN obj \subseteq {"Editing", "Validity", "Id", "Name", "Logo", "Version",
                             "Author", "Description", "Context"}
    /\ obj.Editing = "ok" /\ obj.Validity = "ok" /\ obj.Author = "ok"

(***************************************************************************)
(* Results of operations.                                                  *)
(***************************************************************************)
NoField == [surface |-> "", level |-> -1, i |-> 0, prop |-> ""]
NoErr == [kind |-> "none", where |-> <<>>, field |-> NoField,
          ref |-> <<>>, id |-> <<>>, sub |-> <<>>]
\* an Error that is not a RulebookParseError
PlainErr(kind) == [NoErr EXCEPT !.kind = kind]
Ok == [status |-> "ok", err |-> NoErr]
Raise(status, err) == [status |-> status, err |-> err]

(***************************************************************************)
(* Repository (class Rulebook).                                            *)
(***************************************************************************)
\* an artifact keeps the validated object; its file, yaml and cst serve only
\* to position error messages
RulebookArtifact(obj) == [obj |-> obj]

getIndex == index
getAspects == aspects

\* variant: the last aspect whose Id equals id
findAspectByIdLast(id) ==
    LET hits == {i \in 1..Len(aspects) : aspects[i].obj.Id = id}
    IN  IF hits = {} THEN <<>>
        ELSE <<aspects[CHOOSE i \in hits : \A j \in hits : j <= i]>>

\* Array.prototype.find: the first aspect whose Id equals id, <<>> when none
findAspectById(id) ==
    LET hits == {i \in 1..Len(aspects) : aspects[i].obj.Id = id}
    IN  IF hits = {} THEN <<>>
        ELSE <<aspects[CHOOSE i \in hits : \A j \in hits : i <= j]>>

(***************************************************************************)
(* Parser: parseYamlWithSchema.  A YAML text is the pair of what the YAML  *)
(* parser makes of it (a syntax error, or an object) and its file name.    *)
(***************************************************************************)
parseYamlWithSchema(doc, specType) ==
    IF doc.syntax # "ok"
    THEN [r |-> Raise("ParseError", PlainErr("syntactic")), art |-> <<>>]
    ELSE IF ~(IF specType = "index" THEN IndexSchema(doc.obj) ELSE AspectSchema(doc.obj))
    THEN [r |-> Raise("ParseError", PlainErr("semantic")), art |-> <<>>]
    ELSE [r |-> Ok, art |-> <<RulebookArtifact(doc.obj)>>]

(***************************************************************************)
(* Cross-reference validator.                                              *)
(***************************************************************************)
\* variant: Context[ref] !== undefined, the path taken as one key
objectPathDefinedFlat(ctx, ref) == ref \in DOMAIN ctx

\* objectPath.get(Context, ref) !== undefined: the path is split at the dots
\* and followed through own properties; a text value has the own property
\* "length" and no other that a segment can spell
objectPathDefined(ctx, ref) ==
    LET segs == Split(ref, ".")
    IN  /\ segs[1] \in DOMAIN ctx
        /\ Len(segs) >= 2 => segs[2] \in DOMAIN ctx[segs[1]]
        /\ Len(segs) >= 3 => segs[3] = sLength
        /\ Len(segs) <= 3

checkRefCtx(where, field, value) ==
    LET m == MatchCtx(value)
        e == [NoErr EXCEPT !.where = where, !.field = field]
    IN  IF ~m.ok THEN Raise("ParseError", [e EXCEPT !.kind = "ctx_format"])
        ELSE IF getIndex = <<>> THEN Raise("Error", PlainErr("index still not available"))
        ELSE IF ~objectPathDefined(getIndex[1].obj.Context, m.ref)
        THEN Raise("ParseError", [e EXCEPT !.kind = "ctx_undefined", !.ref = m.ref])
        ELSE Ok

checkRefAspect(where, field, value) ==
    LET m == MatchAspect(value)
        e == [NoErr EXCEPT !.where = where, !.field = field]
        aspect == findAspectById(m.id)
    IN  IF ~m.ok THEN Raise("ParseError", [e EXCEPT !.kind = "aspect_format"])
        ELSE IF aspect = <<>>
        THEN Raise("ParseError", [e EXCEPT !.kind = "aspect_undefined", !.id = m.id])
        ELSE IF m.hasSub /\ ~\E i \in 1..Len(aspect[1].obj.Assessment) :
                                aspect[1].obj.Assessment[i].lv.Id = m.sub
        THEN Raise("ParseError", [e EXCEPT !.kind = "assessment_undefined",
                                           !.id = m.id, !.sub = m.sub])
        ELSE Ok

\* the concatenation of F(1), ..., F(n)
FlatMap(n, F(_)) ==
    LET f[k \in 0..n] == IF k = 0 THEN <<>> ELSE f[k - 1] \o F(k)
    IN  f[n]

PropOrder == <<"MUST", "SHOULD", "MAY", "WONT">>

Check(type, a, field, value) ==
    [type |-> type, where |-> a.obj.Id, field |-> field, value |-> value]

\* the checkRefCtx calls of the first loop for one aspect, in call order
AssessChecks(a) ==
    FlatMap(Len(a.obj.Assessment), LAMBDA e :
        LET key == a.obj.Assessment[e].key
            lv  == a.obj.Assessment[e].lv
        IN  IF ~Has(lv, "Assess") THEN <<>>
            ELSE FlatMap(Len(lv.Assess), LAMBDA i :
                    FlatMap(Len(PropOrder), LAMBDA p :
                        IF Has(lv.Assess[i], PropOrder[p])
                        THEN <<Check("ctx", a,
                                 [surface |-> "Assessment", level |-> key,
                                  i |-> i - 1, prop |-> PropOrder[p]],
                                 lv.Assess[i][PropOrder[p]])>>
                        ELSE <<>>)))

RelField(i, prop) == [surface |-> "Relation", level |-> -1, i |-> i - 1, prop |-> prop]

\* the checks of the second loop for one relation, in call order
RelationChecksOf(a, i) ==
    LET rel == a.obj.Relations[i]
        ctxOf(k) == IF Has(rel, k) THEN <<Check("ctx", a, RelField(i, k), rel[k])>> ELSE <<>>
    IN  (IF Has(rel, "Scope")
         THEN <<Check("aspect", a, RelField(i, "Scope"), rel["Scope"])>> ELSE <<>>)
        \o ctxOf("Demand")
        \o ctxOf("Context")
        \o ctxOf("Responsible")
        \o (IF Has(rel, "See-Also") /\ StartsWith(rel["See-Also"], sCtx)
            THEN <<Check("ctx", a, RelField(i, "See-Also"), rel["See-Also"])>> ELSE <<>>)
        \o (IF Has(rel, "See-Also") /\ StartsWith(rel["See-Also"], sAspect)
            THEN <<Check("aspect", a, RelField(i, "See-Also"), rel["See-Also"])>> ELSE <<>>)

RelationChecks(a) ==
    IF ~Has(a.obj, "Relations") THEN <<>>
    ELSE FlatMap(Len(a.obj.Relations), LAMBDA i : RelationChecksOf(a, i))

\* the variant walk that checks each aspect's relations right after its
\* assessments
AllChecksPerAspect ==
    FlatMap(Len(aspects), LAMBDA k : AssessChecks(aspects[k]) \o RelationChecks(aspects[k]))

\* every check validateCrossRefs makes when none fails, in call order
AllChecks ==
    FlatMap(Len(aspects), LAMBDA k : AssessChecks(aspects[k]))
    \o FlatMap(Len(aspects), LAMBDA k : RelationChecks(aspects[k]))

RunCheck(c) ==
    IF c.type = "ctx" THEN checkRefCtx(c.where, c.field, c.value)
    ELSE checkRefAspect(c.where, c.field, c.value)

\* the variant of validateCrossRefs that reports a missing index as a
\* parse error of the index source
validateCrossRefsParseError ==
    IF getIndex = <<>>
    THEN Raise("ParseError", [NoErr EXCEPT !.kind = "semantic", !.where = <<"INDEX.yaml">>])
    ELSE LET cs  == AllChecks
             bad == {i \in 1..Len(cs) : RunCheck(cs[i]).status # "ok"}
         IN  IF bad = {} THEN Ok
             ELSE RunCheck(cs[CHOOSE i \in bad : \A j \in bad : i <= j])

\* the outcome of validateCrossRefs: the first check that raises ends the walk
validateCrossRefs ==
    IF getIndex = <<>> THEN Raise("Error", PlainErr("index still not available"))
    ELSE LET cs  == AllChecks
             bad == {i \in 1..Len(cs) : RunCheck(cs[i]).status # "ok"}
         IN  IF bad = {} THEN Ok
             ELSE RunCheck(cs[CHOOSE i \in bad : \A j \in bad : i <= j])

(***************************************************************************)
(* Generator: reference rendering (rulebook-generator.ts).                 *)
(***************************************************************************)
escapeChar(c) ==
    IF c = "&" THEN <<"&","a","m","p",";">>
    ELSE IF c = "<" THEN <<"&","l","t",";">>
    ELSE IF c = ">" THEN <<"&","g","t",";">>
    ELSE IF c = "\"" THEN <<"&","q","u","o","t",";">>
    ELSE IF c = "'" THEN <<"&","#","0","3","9",";">>
    ELSE <<c>>
escapeHtml(text) == FlatMap(Len(text), LAMBDA i : escapeChar(text[i]))

\* largest index in lo..hi at which s holds c, 0 when there is none
LastIdxIn(s, c, lo, hi) ==
    LET ps == {i \in lo..hi : s[i] = c}
    IN  IF ps = {} THEN 0 ELSE CHOOSE i \in ps : \A j \in ps : j <= i

NoMatch == [ok |-> FALSE, m1 |-> <<>>, m2 |-> <<>>, m3 |-> <<>>]

\* groups 2 and 3 of the context pattern on the text after the first dot, of
\* which d2 is the position of the next dot and p that of the last "#" before it
ctxGroups(m1, after, d2, p) ==
    IF d2 = 0 THEN [ok |-> TRUE, m1 |-> m1, m2 |-> after, m3 |-> <<>>]
    ELSE IF p # 0 /\ All(Tail2(after, p), IsDot)
    THEN [ok |-> TRUE, m1 |-> m1, m2 |-> SubSeq(after, 1, p - 1), m3 |-> Tail2(after, p)]
    ELSE NoMatch

ctxAfter(m1, after, d2) ==
    IF Len(after) = 0 THEN NoMatch
    ELSE ctxGroups(m1, after, d2, IF d2 = 0 THEN 0 ELSE LastIdxIn(after, "#", 2, d2 - 1))

ctxRest(rest, d) ==
    IF d < 2 THEN NoMatch
    ELSE ctxAfter(SubSeq(rest, 1, d - 1), Tail2(rest, d), FirstIdx(Tail2(rest, d), "."))

\* the match of /^ctx:([^.]+)\.([^.]+)(?:#(.+))?$/ : group 1 ends at the first
\* dot; group 2 is greedy, so it takes the whole rest when the rest has no dot,
\* and otherwise must stop at the last "#" before the next dot
MatchCtxHtml(ref) ==
    IF ~StartsWith(ref, sCtx) THEN NoMatch
    ELSE ctxRest(Tail2(ref, Len(sCtx)), FirstIdx(Tail2(ref, Len(sCtx)), "."))

aspectGroups(ok, name, p) ==
    [ ok     |-> ok,
      hasSub |-> p # 0,
      m1     |-> IF p = 0 THEN name ELSE SubSeq(name, 1, p - 1),
      m2     |-> IF p = 0 THEN <<>> ELSE Tail2(name, p) ]

aspectName(ok, name) ==
    aspectGroups(ok /\ Len(name) >= 1 /\ All(name, IsDot), name,
                 LastIdxIn(name, "#", 2, Len(name) - 1))

\* the matches of /^aspect:(.+)$/ and then /^(.+)#(.+)$/ on its group: the
\* first group is greedy, so the split is at the last "#" with text on both sides
MatchAspectHtml(ref) == aspectName(StartsWith(ref, sAspect), Tail2(ref, Len(sAspect)))

NoHtml == [kind |-> "none", href |-> <<>>, text |-> <<>>]
Html(h) == [err |-> NoErr, html |-> h]

ctxLink(c) ==
    [kind |-> "ctx",
     href |-> <<"#","c","t","x","-">> \o escapeHtml(c.m1) \o <<"-">> \o escapeHtml(c.m2),
     text |-> <<escapeHtml(c.m1),
                escapeHtml(c.m2) \o
                (IF c.m3 # <<>> THEN <<" ","#"," ">> \o escapeHtml(c.m3) ELSE <<>>)>>]

aspectLink(a) ==
    IF a.hasSub
    THEN [kind |-> "aspect",
          href |-> <<"#">> \o escapeHtml(a.m1) \o <<"-">> \o escapeHtml(a.m2),
          text |-> <<escapeHtml(a.m1), escapeHtml(a.m2)>>]
    ELSE [kind |-> "aspect", href |-> <<"#">> \o escapeHtml(a.m1),
          text |-> <<escapeHtml(a.m1)>>]

urlLink(e) == [kind |-> "url", href |-> e, text |-> <<e>>]

\* /^https?:.+/ , which is not anchored at the end
MatchUrlHtml(ref) ==
    /\ StartsWith(ref, sHttp)
    /\ \/ StartsWith(Tail2(ref, Len(sHttp)), <<":">>) /\ Len(ref) >= 6 /\ IsDot(ref[6])
       \/ StartsWith(Tail2(ref, Len(sHttp)), <<"s", ":">>) /\ Len(ref) >= 7 /\ IsDot(ref[7])

ref2htmlOf(ref, c, a) ==
    IF c.ok THEN Html(ctxLink(c))
    ELSE IF a.ok THEN Html(aspectLink(a))
    ELSE IF MatchUrlHtml(ref) THEN Html(urlLink(escapeHtml(ref)))
    ELSE IF RefMD(ref) THEN Html([kind |-> "md", href |-> <<>>, text |-> <<Tail2(ref, Len(sMd))>>])
    ELSE [err |-> [NoErr EXCEPT !.kind = "bad reference", !.ref = ref], html |-> NoHtml]

\* ref2html: the link it returns (its target and the texts of its label), or
\* the "bad reference" error
ref2html(ref) == ref2htmlOf(ref, MatchCtxHtml(ref), MatchAspectHtml(ref))

\* the error of the first element of rs that has one
FirstErr(rs) ==
    LET bad == {i \in 1..Len(rs) : rs[i].err.kind # "none"}
    IN  IF bad = {} THEN NoErr ELSE rs[CHOOSE i \in bad : \A j \in bad : i <= j].err

\* the outputs of a run of steps, and the error of the first step that raised
Collect(rs) == [err |-> FirstErr(rs), out |-> [i \in 1..Len(rs) |-> rs[i].out]]

(***************************************************************************)
(* Generator: the assessment block of one aspect.                          *)
(***************************************************************************)
\* variant: the keys left in the order they were written
SortNone(ass) == ass

RECURSIVE SortDesc(_)
\* toSorted((a, b) => b.localeCompare(a)) on the keys "Level-0" .. "Level-9"
SortDesc(ass) ==
    IF Len(ass) = 0 THEN <<>>
    ELSE LET m == CHOOSE i \in 1..Len(ass) : \A j \in 1..Len(ass) : ass[j].key <= ass[i].key
         IN  <<ass[m]>> \o SortDesc(SubSeq(ass, 1, m - 1) \o Tail2(ass, m))

\* the keys of the Assessment in descending order, with their levels
assessmentLevels(aspect) == SortDesc(aspect.obj.Assessment)

\* Array.prototype.filter
Filter(s, P(_)) == FlatMap(Len(s), LAMBDA i : IF P(s[i]) THEN <<s[i]>> ELSE <<>>)

NoSpace == [variant |-> "none", top |-> "", bottom |-> ""]
EmptySpace == [variant |-> "empty", top |-> "", bottom |-> ""]

\* the Optimize labels of the levels that have one, in the order of the levels
optimizeLabels(assessments) ==
    FlatMap(Len(assessments), LAMBDA i :
        IF Has(assessments[i].lv, "Optimize") THEN <<assessments[i].lv.Optimize>> ELSE <<>>)

\* variant: the second label on top, the first at the bottom
spaceOfSwapped(id, n, labels) ==
    IF n > 1
    THEN IF Len(labels) < 1
         THEN [err |-> [NoErr EXCEPT !.kind = "first/top Optimize information missing",
                                     !.where = id], out |-> NoSpace]
         ELSE IF Len(labels) < 2
         THEN [err |-> [NoErr EXCEPT !.kind = "second/bottom Optimize information missing",
                                     !.where = id], out |-> NoSpace]
         ELSE [err |-> NoErr,
               out |-> [variant |-> "split", top |-> labels[2], bottom |-> labels[1]]]
    ELSE [err |-> NoErr, out |-> EmptySpace]

spaceOf(id, n, labels) ==
    IF n > 1
    THEN IF Len(labels) < 1
         THEN [err |-> [NoErr EXCEPT !.kind = "first/top Optimize information missing",
                                     !.where = id], out |-> NoSpace]
         ELSE IF Len(labels) < 2
         THEN [err |-> [NoErr EXCEPT !.kind = "second/bottom Optimize information missing",
                                     !.where = id], out |-> NoSpace]
         ELSE [err |-> NoErr,
               out |-> [variant |-> "split", top |-> labels[1], bottom |-> labels[2]]]
    ELSE [err |-> NoErr, out |-> EmptySpace]

\* the "space" block of the card
spaceBlock(aspect) ==
    spaceOf(aspect.obj.Id, Len(aspect.obj.Assessment),
            optimizeLabels(assessmentLevels(aspect)))

sCTO == sCtx \o <<"C","o","n","t","r","o","l",".","m","s","g","-","C","T","O">>
TierOrder == <<"WONT", "MAY", "SHOULD", "MUST">>

\* A[i].Assess?.findIndex((x) => x[type]?.match(/^ctx:Control\.msg-CTO$/)) !== -1
findsCTO(lv, type) ==
    /\ Has(lv, "Assess")
    /\ \E i \in 1..Len(lv.Assess) : Has(lv.Assess[i], type) /\ lv.Assess[i][type] = sCTO

\* types[j] = v on a JavaScript array: index Len+1 extends the array
SetAt(types, j, v) ==
    IF j <= Len(types) THEN [types EXCEPT ![j] = v] ELSE Append(types, v)

\* variant: MUST carried to the lower levels like the other types
fillTypesKeeping(types, type, i, j, n) ==
    FlatMap(n + 1, LAMBDA k : <<IF k >= j THEN type ELSE types[k]>>)

\* the inner loop "for (let j = i; j <= A.length; j++)", in 1-based positions
RECURSIVE fillTypes(_, _, _, _, _)
fillTypes(types, type, i, j, n) ==
    IF j > n + 1 THEN types
    ELSE fillTypes(SetAt(types, j, IF type = "MUST" /\ j > i THEN "NONE" ELSE type),
                   type, i, j + 1, n)

\* the first type of TierOrder that level lv holds ctx:Control.msg-CTO under,
\* "" when it holds it under none
firstTier(lv) ==
    LET hit == {t \in 1..Len(TierOrder) : findsCTO(lv, TierOrder[t])}
    IN  IF hit = {} THEN "" ELSE TierOrder[CHOOSE t \in hit : \A u \in hit : t <= u]

\* variant: the outer loop left at the first level that holds the reference
scanTypesFirst(types, A, i) ==
    LET hit == {k \in i..Len(A) : firstTier(A[k].lv) # ""}
    IN  IF hit = {} THEN types
        ELSE LET k == CHOOSE k \in hit : \A u \in hit : k <= u
             IN  fillTypes(types, firstTier(A[k].lv), k, k, Len(A))

\* the outer loop over the levels, from position i on
RECURSIVE scanTypes(_, _, _)
scanTypes(types, A, i) ==
    IF i > Len(A) THEN types
    ELSE IF firstTier(A[i].lv) = "" THEN scanTypes(types, A, i + 1)
    ELSE scanTypes(fillTypes(types, firstTier(A[i].lv), i, i, Len(A)), A, i + 1)

\* "for (let i = 0; i < assessments.length; i++) types[i] = "NONE"", then the scan
tierTypesOf(A) == scanTypes(FlatMap(Len(A), LAMBDA i : <<"NONE">>), A, 1)

\* the tier ("type") of each level of the card, in rendering order
tierTypes(aspect) == tierTypesOf(assessmentLevels(aspect))

\* the key whose value a card shows for a statement: the first one present
assessKey(st) ==
    IF Has(st, "MUST") THEN "MUST"
    ELSE IF Has(st, "SHOULD") THEN "SHOULD"
    ELSE IF Has(st, "MAY") THEN "MAY"
    ELSE IF Has(st, "WONT") THEN "WONT"
    ELSE ""

Tagged(r, tag) == [err |-> r.err, out |-> [html |-> r.html, tag |-> tag]]

\* one entry of the "Assess" row of a card level
cardAssess(st) ==
    IF assessKey(st) = "" THEN Tagged(Html(NoHtml), "")
    ELSE Tagged(ref2html(st[assessKey(st)]), assessKey(st))

cardLevelOf(e, type, rows) ==
    [err |-> rows.err,
     out |-> [key |-> e.key, type |-> type, id |-> e.lv.Id, assess |-> rows.out]]

cardLevel(e, type) ==
    cardLevelOf(e, type,
        Collect(IF Has(e.lv, "Assess")
                THEN [k \in 1..Len(e.lv.Assess) |-> cardAssess(e.lv.Assess[k])]
                ELSE <<>>))

cardLevelsOf(A, types) == Collect([i \in 1..Len(A) |-> cardLevel(A[i], types[i])])

\* the "levels" block of the card
cardLevels(aspect) == cardLevelsOf(assessmentLevels(aspect), tierTypes(aspect))

RelationOrder == <<"Scope", "Context", "Support", "Demand", "Responsible", "See-Also">>

RelItem(err, item, type, refs) ==
    [err |-> err, out |-> [item |-> item, type |-> type, refs |-> refs]]

\* the variant that breaks the column only in front of a Demand row
relationRowOfLazy(type, refs) ==
    IF Len(refs.out) = 0 THEN <<>>
    ELSE (IF type = "Demand" THEN <<RelItem(NoErr, "column", "", <<>>)>> ELSE <<>>)
         \o <<RelItem(refs.err, "row", type, refs.out)>>

relationRowOf(type, refs) ==
    (IF type = "Demand" THEN <<RelItem(NoErr, "column", "", <<>>)>> ELSE <<>>)
    \o (IF Len(refs.out) > 0 THEN <<RelItem(refs.err, "row", type, refs.out)>> ELSE <<>>)

relationRefs(entries, type) ==
    Collect([k \in 1..Len(entries) |->
                [err |-> ref2html(entries[k][type]).err,
                 out |-> ref2html(entries[k][type]).html]])

\* what the loop body emits for one relation type
relationRow(rels, type) ==
    relationRowOf(type,
        relationRefs(Filter(rels, LAMBDA r : Has(r, type) /\ r[type] # <<>>), type))

\* the "relations" block of the card: the lines of the column, in order
relationsBlock(aspect) ==
    IF ~Has(aspect.obj, "Relations") \/ Len(aspect.obj.Relations) = 0
    THEN [err |-> NoErr, out |-> <<>>]
    ELSE Collect(FlatMap(Len(RelationOrder), LAMBDA t :
                    relationRow(aspect.obj.Relations, RelationOrder[t])))

ProseOrder == <<"MUST", "SHOULD", "MAY">>

\* the variant of narrated that counts a statement of any key
narratedAny(lv) ==
    /\ Has(lv, "Assess")
    /\ \E i \in 1..Len(lv.Assess) : DOMAIN lv.Assess[i] # {}

narrated(lv) ==
    /\ Has(lv, "Assess")
    /\ \E i \in 1..Len(lv.Assess) :
          \E t \in 1..Len(ProseOrder) : Has(lv.Assess[i], ProseOrder[t])

proseItemOf(lv, rows) == [err |-> rows.err, out |-> [id |-> lv.Id, narr |-> rows.out]]

\* one list item of the prose format
proseItem(lv) ==
    proseItemOf(lv, Collect(
        FlatMap(Len(ProseOrder), LAMBDA t :
           FlatMap(Len(lv.Assess), LAMBDA i :
              IF Has(lv.Assess[i], ProseOrder[t])
              THEN <<Tagged(ref2html(lv.Assess[i][ProseOrder[t]]), ProseOrder[t])>>
              ELSE <<>>))))

proseLevelsOf(A) ==
    Collect(FlatMap(Len(A), LAMBDA i :
               IF narrated(A[i].lv) THEN <<proseItem(A[i].lv)>> ELSE <<>>))

\* the assessment list of the prose format
proseLevels(aspect) == proseLevelsOf(assessmentLevels(aspect))

cardOf(id, sp, lv, rl) ==
    [err |-> FirstErr(<<sp, lv, rl>>),
     out |-> [id |-> id, space |-> sp.out, levels |-> lv.out,
              prose |-> <<>>, relations |-> rl.out]]

proseOf(id, pr) ==
    [err |-> pr.err,
     out |-> [id |-> id, space |-> NoSpace, levels |-> <<>>,
              prose |-> pr.out, relations |-> <<>>]]

\* what print emits for one aspect, or the first error raised while doing so
printAspect(aspect, format) ==
    IF format = "card"
    THEN cardOf(aspect.obj.Id, spaceBlock(aspect), cardLevels(aspect), relationsBlock(aspect))
    ELSE proseOf(aspect.obj.Id, proseLevels(aspect))

NoOut == [cover |-> "", aspects |-> <<>>]

printOf(name, as) ==
    IF as.err.kind # "none"
    THEN [status |-> "Error", err |-> as.err, out |-> NoOut]
    ELSE [status |-> "ok", err |-> NoErr, out |-> [cover |-> name, aspects |-> as.out]]

\* print(format): the markup, or the error raised
print(format) ==
    IF getIndex = <<>>
    THEN [status |-> "Error", err |-> PlainErr("index still not loaded"), out |-> NoOut]
    ELSE printOf(getIndex[1].obj.Name,
                 Collect([i \in 1..Len(getAspects) |-> printAspect(getAspects[i], format)]))

(***************************************************************************)
(* Serializer (rulebook-serializer.ts).  A JSON text is what JSON.parse    *)
(* makes of it: a syntax error, or a value, of which the model keeps       *)
(* whether it is an object, its "index" member (<<>> unless it is a        *)
(* non-null object) and its "aspects" member (with whether it is an array).*)
(***************************************************************************)
Json(idx, aspectsIsArray, as) ==
    [syntax |-> "ok", top |-> "object", index |-> idx,
     aspectsIsArray |-> aspectsIsArray, aspects |-> as]

\* export(): index?.obj ?? null, and the obj of every aspect, in order
export ==
    Json(IF getIndex = <<>> THEN <<>> ELSE <<getIndex[1].obj>>, TRUE,
         [i \in 1..Len(getAspects) |-> getAspects[i].obj])

\* the aspects import adds before it stops: all of them, or those before the
\* first one that fails the schema
RECURSIVE importAspects(_)
importAspects(objs) ==
    IF Len(objs) = 0 THEN [r |-> Ok, arts |-> <<>>]
    ELSE IF ~AspectSchema(objs[1])
    THEN [r |-> Raise("Error", PlainErr("failed to import aspect")), arts |-> <<>>]
    ELSE LET rest == importAspects(Tail(objs))
         IN  [r |-> rest.r, arts |-> <<RulebookArtifact(objs[1])>> \o rest.arts]

\* the variant of import that leaves out clearAspects
importKeeping(json) ==
    LET keep(kind) == [r |-> Raise("Error", PlainErr(kind)), index |-> index, aspects |-> aspects]
    IN  IF json.syntax # "ok" THEN keep("failed to parse JSON")
        ELSE IF json.top # "object" THEN keep("import structure not an object")
        ELSE IF json.index = <<>> THEN keep("import structure does not contain top-level 'index' field")
        ELSE IF ~json.aspectsIsArray
        THEN keep("import structure does not contain top-level 'aspects' field")
        ELSE IF ~IndexSchema(json.index[1]) THEN keep("failed to import index")
        ELSE LET as == importAspects(json.aspects)
             IN  [r |-> as.r, index |-> <<RulebookArtifact(json.index[1])>>,
                  aspects |-> aspects \o as.arts]

\* import(json): the outcome and the repository it leaves
import(json) ==
    LET keep(kind) == [r |-> Raise("Error", PlainErr(kind)), index |-> index, aspects |-> aspects]
    IN  IF json.syntax # "ok" THEN keep("failed to parse JSON")
        ELSE IF json.top # "object" THEN keep("import structure not an object")
        ELSE IF json.index = <<>> THEN keep("import structure does not contain top-level 'index' field")
        ELSE IF ~json.aspectsIsArray
        THEN keep("import structure does not contain top-level 'aspects' field")
        ELSE IF ~IndexSchema(json.index[1]) THEN keep("failed to import index")
        ELSE LET as == importAspects(json.aspects)
             IN  [r |-> as.r, index |-> <<RulebookArtifact(json.index[1])>>,
                  aspects |-> as.arts]

(***************************************************************************)
(* Documents the operations are tried on.                                  *)
(***************************************************************************)
rNa   == sCtx \o <<"N",".","a">>                      \* ctx:N.a
rNaF  == sCtx \o <<"N",".","a","#","f">>              \* ctx:N.a#f
rQq   == sCtx \o <<"Q",".","q">>                      \* ctx:Q.q
rN    == sCtx \o <<"N">>                              \* ctx:N
aX    == sAspect \o <<"X">>                           \* aspect:X
aYL   == sAspect \o <<"Y","#","L">>                   \* aspect:Y#L
aZ    == sAspect \o <<"Z">>                           \* aspect:Z
rUrl  == sHttp \o <<"s",":","u">>                     \* https:u
rMd   == sMd \o <<"m">>                               \* md:m
rBad  == <<"f","o","o",":","b","a","r">>              \* foo:bar

Context1 == (<<"N">> :> (<<"a">> :> "text"))
            @@ (<<"C","o","n","t","r","o","l">> :> (<<"m","s","g","-","C","T","O">> :> "text"))
Context2 == (<<"Q">> :> (<<"q">> :> "text"))

IndexObj(name, ctx) ==
    [Editing |-> "ok", Validity |-> "ok", Id |-> "RB", Name |-> name, Version |-> "1",
     Author |-> "ok", Description |-> "d", Context |-> ctx]

Yaml(file, obj) == [syntax |-> "ok", file |-> file, obj |-> obj]
BadYaml(file) == [syntax |-> "error", file |-> file, obj |-> <<>>]

IndexDocs ==
    { Yaml("INDEX.yaml", IndexObj("One", Context1)),
      Yaml("INDEX.yaml", IndexObj("Two", Context2)),
      Yaml("INDEX.yaml", [IndexObj("Bad", Context1) EXCEPT !.Author = "bad"]),
      BadYaml("INDEX.yaml") }

Lv(id) == [Id |-> id, What |-> "w"]
With(r, k, v) == (k :> v) @@ r
St(k, v) == (k :> v)
Entry(key, lv) == [key |-> key, lv |-> lv]
AspectObj(id, ass) == [Id |-> id, Name |-> "n", Objective |-> "o", Assessment |-> ass]

AspectObjs ==
    { \* X: one level L demanding ctx:N.a
      AspectObj(<<"X">>, <<Entry(5, With(Lv(<<"L">>), "Assess", <<St("MUST", rNa)>>))>>),
      \* Y with levels M and L, statements under other keys, and a See-Also to its own level L
      With(AspectObj(<<"Y">>,
             <<Entry(2, With(With(Lv(<<"M">>), "Optimize", "Cost"), "Assess",
                         <<St("MAY", rNaF)>>)),
               Entry(5, With(With(Lv(<<"L">>), "Optimize", "Speed"), "Assess",
                         <<St("SHOULD", rNa), St("WONT", rNa)>>))>>),
           "Relations", <<St("See-Also", aYL)>>),
      \* a second Y that has no level L, with a Scope to Y#L
      With(AspectObj(<<"Y">>, <<Entry(3, Lv(<<"M">>))>>),
           "Relations", <<St("Scope", aYL)>>),
      \* Scope to a level of Y, and a Demand
      With(AspectObj(<<"X">>, <<>>),
           "Relations", <<St("Scope", aYL), St("Demand", rNa)>>),
      With(AspectObj(<<"Z">>, <<>>),
           "Relations", <<St("Context", rQq), St("Responsible", rNa)>>),
      \* a relation with two keys, an empty relation, and the See-Also forms
      With(AspectObj(<<"W">>, <<>>),
           "Relations", <<St("Scope", aX) @@ St("Demand", rNa), <<>>,
                          St("See-Also", rUrl), St("See-Also", rMd),
                          St("See-Also", rQq), St("See-Also", aZ)>>),
      \* a statement that names a namespace only, and a Support relation
      With(AspectObj(<<"W">>, <<Entry(0, With(Lv(<<"L">>), "Assess", <<St("WONT", rN)>>))>>),
           "Relations", <<St("Support", rQq)>>),
      \* V: a level whose statements are not written in the order of their
      \* keys, and a level with a WONT statement only
      AspectObj(<<"V">>,
          <<Entry(4, With(Lv(<<"L">>), "Assess",
                       <<St("MAY", rNa), St("WONT", rQq), St("MUST", rNaF),
                         St("SHOULD", rNa), St("MUST", rQq)>>)),
            Entry(6, With(Lv(<<"M">>), "Assess", <<St("WONT", rNa)>>))>>),
      \* rejected by the schema: a literal of no reference form, an unknown key
      With(AspectObj(<<"X">>, <<>>), "Relations", <<St("See-Also", rBad)>>),
      With(AspectObj(<<"X">>, <<>>), "Bogus", "b") }

AspectDocs == {Yaml("a.yaml", o) : o \in AspectObjs} \cup {BadYaml("a.yaml")}

NoJson == [syntax |-> "error", top |-> "", index |-> <<>>, aspectsIsArray |-> FALSE,
           aspects |-> <<>>]

\* JSON texts handed to import besides the text export returned
JsonDocs ==
    { NoJson,
      [NoJson EXCEPT !.syntax = "ok", !.top = "other"],
      Json(<<>>, TRUE, <<>>),
      Json(<<IndexObj("One", Context1)>>, FALSE, <<>>),
      Json(<<[IndexObj("Bad", Context1) EXCEPT !.Author = "bad"]>>, TRUE, <<>>) }
    \cup { Json(<<IndexObj("Two", Context2)>>, TRUE, <<o>>) :
             o \in {a \in AspectObjs : a.Id = <<"X">>} }
    \cup { Json(<<IndexObj("Two", Context2)>>, TRUE,
                <<AspectObj(<<"Z">>, <<>>), With(AspectObj(<<"X">>, <<>>), "Bogus", "b")>>),
           Json(<<IndexObj("Two", Context2)>>, TRUE,
                <<AspectObj(<<"Z">>, <<>>), AspectObj(<<"X">>, <<>>)>>) }

Formats == {"card", "prose"}

(***************************************************************************)
(* Builder of nested text (class Generator).  An entry of content is a      *)
(* string, kept as the sequence of the pieces it was put together from, or *)
(* a Generator.  this.child, when it is not null, is the Generator pushed  *)
(* last by open(): the field child records whether it is set, and Child    *)
(* reads it from the end of content.                                       *)
(***************************************************************************)
Str(text) == [kind |-> "string", text |-> text, content |-> <<>>, child |-> FALSE]

NewGenerator == [kind |-> "Generator", text |-> <<>>, content |-> <<>>, child |-> FALSE]

Child(g) == g.content[Len(g.content)]

SetChild(g, c) == [g EXCEPT !.content = SubSeq(g.content, 1, Len(g.content) - 1) \o <<c>>]

\* entry += content: a string is extended, a Generator is first converted
\* to the string every plain object converts to
Concat(entry, c) ==
    IF entry.kind = "string" THEN Str(entry.text \o <<c>>)
    ELSE Str(<<"[object Object]", c>>)

RECURSIVE add(_, _)
add(g, c) ==
    IF g.child THEN SetChild(g, add(Child(g), c))
    ELSE [g EXCEPT !.content = g.content \o <<Str(<<c>>)>>]

RECURSIVE append(_, _)
append(g, c) ==
    IF g.child THEN SetChild(g, append(Child(g), c))
    ELSE IF Len(g.content) = 0
         THEN [g EXCEPT !.content = g.content \o <<Str(<<c>>)>>]
         ELSE SetChild(g, Concat(Child(g), c))

RECURSIVE open(_)
open(g) ==
    IF g.child THEN SetChild(g, open(Child(g)))
    ELSE [g EXCEPT !.content = g.content \o <<NewGenerator>>, !.child = TRUE]

\* the variant of close that ends the outermost open scope
closeOuter(g) ==
    IF ~g.child THEN [g |-> g, r |-> Raise("Error", PlainErr("already at top-level"))]
    ELSE [g |-> [g EXCEPT !.child = FALSE], r |-> Ok]

RECURSIVE close(_)
close(g) ==
    IF ~g.child THEN [g |-> g, r |-> Raise("Error", PlainErr("already at top-level"))]
    ELSE IF Child(g).child THEN [g |-> SetChild(g, close(Child(g)).g), r |-> Ok]
    ELSE [g |-> [g EXCEPT !.child = FALSE], r |-> Ok]

\* A body is the list of the calls it makes on the Generator it is handed.
Call(op, text, body) == [op |-> op, text |-> text, body |-> body]

GroupOpen == "<"
GroupClose == ">"

RECURSIVE run(_, _)
RECURSIVE sub(_, _)
RECURSIVE group(_, _, _, _)
RECURSIVE groupOpen(_, _, _, _)

run(g, body) ==
    IF Len(body) = 0 THEN g
    ELSE LET c == body[1]
             g1 == IF c.op = "add" THEN add(g, c.text)
                   ELSE IF c.op = "append" THEN append(g, c.text)
                   ELSE group(g, GroupOpen, GroupClose, c.body)
         IN  run(g1, SubSeq(body, 2, Len(body)))

sub(g, body) ==
    IF g.child THEN SetChild(g, sub(Child(g), body))
    ELSE LET g1 == open(g)
             g2 == SetChild(g1, run(Child(g1), body))
         IN  close(g2).g

\* the variant of group that leaves the scope of the body open
groupOpen(g, o, c, body) ==
    IF g.child THEN SetChild(g, groupOpen(Child(g), o, c, body))
    ELSE LET g1 == open(add(g, o))
         IN  add(SetChild(g1, run(Child(g1), body)), c)

group(g, o, c, body) ==
    IF g.child THEN SetChild(g, group(Child(g), o, c, body))
    ELSE add(sub(add(g, o), body), c)

Line(level, text) == [level |-> level, text |-> text]

RECURSIVE renderAt(_, _)
renderAt(content, level) ==
    IF Len(content) = 0 THEN <<>>
    ELSE LET e == content[1]
             rest == renderAt(SubSeq(content, 2, Len(content)), level)
         IN  IF e.kind = "string" THEN <<Line(level, e.text)>> \o rest
             ELSE renderAt(e.content, level + 1) \o rest

\* the lines render puts out: with a child still open it is the child that
\* is rendered, from level 0
RECURSIVE renderLines(_, _)
renderLines(g, level) ==
    IF g.child THEN renderLines(Child(g), 0)
    ELSE renderAt(g.content, level)

\* pad.repeat(level): level times indent spaces
Spaces(n) == FlatMap(n, LAMBDA i : <<" ">>)

\* the text of the lines: pad.repeat(level) + entry + "\n" for each
RECURSIVE textOf(_, _)
textOf(lines, indent) ==
    IF Len(lines) = 0 THEN <<>>
    ELSE Spaces(indent * lines[1].level) \o lines[1].text \o <<"\n">>
         \o textOf(SubSeq(lines, 2, Len(lines)), indent)

\* the variant of render that starts every rendering at level 0
renderFromZero(g, indent, level) == textOf(renderLines(g, 0), indent)

render(g, indent, level) == textOf(renderLines(g, level), indent)

(***************************************************************************)
(* The operations of a Rulebook, as a caller may invoke them in any order. *)
(***************************************************************************)
Result(op, arg, r, out) ==
    [op |-> op, arg |-> arg, status |-> r.status, err |-> r.err, out |-> out]

NoExport == [set |-> FALSE, json |-> NoJson, index |-> <<>>, aspects |-> <<>>]

Objs(arts) == [i \in 1..Len(arts) |-> arts[i].obj]

Idle == /\ input = <<>> /\ pc = "idle" /\ log = <<>> /\ html = NewGenerator

Init ==
    /\ index = <<>>
    /\ aspects = <<>>
    /\ res = Result("new", "", Ok, NoOut)
    /\ exported = NoExport
    /\ Idle

\* the variant of parseIndex that unsets the index when the parse fails
ParseIndexUnsetting(doc) ==
    LET p == parseYamlWithSchema(doc, "index")
    IN  /\ index' = p.art
        /\ aspects' = aspects
        /\ res' = Result("parseIndex", "", p.r, NoOut)
        /\ exported' = NoExport

\* parseIndex(file, yaml): setIndex only when the parse succeeded
ParseIndex(doc) ==
    LET p == parseYamlWithSchema(doc, "index")
    IN  /\ index' = IF p.r.status = "ok" THEN p.art ELSE index
        /\ aspects' = aspects
        /\ res' = Result("parseIndex", "", p.r, NoOut)
        /\ exported' = NoExport

\* parseAspect(file, yaml): addAspect only when the parse succeeded
ParseAspect(doc) ==
    LET p == parseYamlWithSchema(doc, "aspect")
    IN  /\ Len(aspects) < MaxAspects
        /\ aspects' = IF p.r.status = "ok" THEN aspects \o p.art ELSE aspects
        /\ index' = index
        /\ res' = Result("parseAspect", "", p.r, NoOut)
        /\ exported' = NoExport

ClearAspects ==
    /\ aspects' = <<>>
    /\ index' = index
    /\ res' = Result("clearAspects", "", Ok, NoOut)
    /\ exported' = NoExport

ValidateCrossRefs ==
    /\ res' = Result("validateCrossRefs", "", validateCrossRefs, NoOut)
    /\ UNCHANGED <<index, aspects, exported>>

\* variant: the aspect list reversed in place while rendering
PrintFormatReversing(format) ==
    LET p == print(format)
    IN  /\ res' = Result("print", format, p, p.out)
        /\ aspects' = FlatMap(Len(aspects), LAMBDA i : <<aspects[Len(aspects) + 1 - i]>>)
        /\ UNCHANGED <<index, exported>>

PrintFormat(format) ==
    LET p == print(format)
    IN  /\ res' = Result("print", format, p, p.out)
        /\ UNCHANGED <<index, aspects, exported>>

\* export(): the caller keeps the text, with the repository content it was
\* taken from, until the repository is next changed by another operation
Export ==
    /\ exported' = [set |-> TRUE, json |-> export,
                    index |-> Objs(index), aspects |-> Objs(aspects)]
    /\ res' = Result("export", "", Ok, NoOut)
    /\ UNCHANGED <<index, aspects>>

Import(json, arg) ==
    LET i == import(json)
    IN  /\ Len(json.aspects) <= MaxAspects
        /\ index' = i.index
        /\ aspects' = i.aspects
        /\ res' = Result("import", arg, i.r, NoOut)
        /\ exported' = IF arg = "exported" THEN exported ELSE NoExport

Next ==
    \/ \E doc \in IndexDocs : ParseIndex(doc) /\ UNCHANGED <<input, pc, log, html>>
    \/ \E doc \in AspectDocs : ParseAspect(doc) /\ UNCHANGED <<input, pc, log, html>>
    \/ ClearAspects /\ UNCHANGED <<input, pc, log, html>>
    \/ ValidateCrossRefs /\ UNCHANGED <<input, pc, log, html>>
    \/ \E f \in Formats : PrintFormat(f) /\ UNCHANGED <<input, pc, log, html>>
    \/ Export /\ UNCHANGED <<input, pc, log, html>>
    \/ \E json \in JsonDocs : Import(json, "text") /\ UNCHANGED <<input, pc, log, html>>
    \/ exported.set /\ Import(exported.json, "exported") /\ UNCHANGED <<input, pc, log, html>>

Spec == Init /\ [][Next]_vars

(***************************************************************************)
(* The card of one Aspect.  The Aspect is drawn from every way to populate *)
(* the level keys 1..NumLevels, each level with or without an Optimize     *)
(* label and with one of the Assess lists of CardAssess.                   *)
(***************************************************************************)
OptLabel == <<"Speed", "Cost", "Scope", "Time", "Risk", "Reach", "Depth", "Width", "Value">>

CardAssess ==
    { <<>>,
      <<St("MUST", sCTO)>>,
      <<St("SHOULD", sCTO)>>,
      <<St("WONT", sCTO)>>,
      <<St("MUST", rNa)>>,
      <<St("MUST", sCTO), St("SHOULD", sCTO)>> }

\* the Id of the level written under key k
LevelId(k) == <<"L", OptLabel[k]>>

CardLevel(k, opt, ass) ==
    LET a == IF ass = <<>> THEN Lv(LevelId(k)) ELSE With(Lv(LevelId(k)), "Assess", ass)
    IN  IF opt THEN With(a, "Optimize", OptLabel[k]) ELSE a

\* level key k left out, or populated
LevelOpts(k) ==
    {<<>>} \cup {<<Entry(k, CardLevel(k, opt, ass))>> : opt \in BOOLEAN, ass \in CardAssess}

\* the Assessment maps over the keys 1..n, keys written in ascending order
RECURSIVE CardAssessments(_)
CardAssessments(n) ==
    IF n = 0 THEN {<<>>}
    ELSE {a \o e : a \in CardAssessments(n - 1), e \in LevelOpts(n)}

CardDocs == {Yaml("a.yaml", AspectObj(<<"A">>, ass)) : ass \in CardAssessments(NumLevels)}
\* every key populated, the keys written in every order
KeyOrders == {p \in [1..NumLevels -> 1..NumLevels] : \A i, j \in 1..NumLevels : p[i] = p[j] => i = j}
OrderDocs ==
    { Yaml("a.yaml", AspectObj(<<"A">>,
          FlatMap(NumLevels, LAMBDA i : <<Entry(p[i], CardLevel(p[i], TRUE, <<St("MUST", rNa)>>))>>))) :
      p \in KeyOrders }
CardIndexDocs == {Yaml("INDEX.yaml", IndexObj("One", Context1))}

\* the repository after parseIndex and parseAspect of one drawn document
InitCard ==
    /\ \E idx \in CardIndexDocs : index = parseYamlWithSchema(idx, "index").art
    /\ \E doc \in CardDocs \cup OrderDocs : aspects = parseYamlWithSchema(doc, "aspect").art
    /\ res = Result("parseAspect", "", Ok, NoOut)
    /\ exported = NoExport
    /\ Idle

NextCard == \E f \in Formats : PrintFormat(f) /\ UNCHANGED <<input, pc, log, html>>

SpecCard == InitCard /\ [][NextCard]_vars

(***************************************************************************)
(* The make command (rulebook.md, parseRulebook and cmdMake).  input is    *)
(* what the command finds: what the source path is, whether INDEX.yaml can *)
(* be read and its text, the other *.yaml files with their texts, and the  *)
(* format option.  pc is the stage the command is at, log the stages it    *)
(* has run with their outcome.                                             *)
(***************************************************************************)
\* the names the aspect files are taken from, in ascending order
FileNames == <<"a.yaml", "b.yaml", "c.yaml", "d.yaml">>
NameRank(f) == CHOOSE i \in 1..Len(FileNames) : FileNames[i] = f
Yamls == {FileNames[i] : i \in 1..MaxFiles}

MakeIndexDocs == {Yaml("INDEX.yaml", IndexObj("One", Context1)), BadYaml("INDEX.yaml")}
\* texts of aspect files: one that passes every stage, one that fails the
\* cross-reference stage, one that fails in print, one that does not parse
MakeAspectObjs ==
    { AspectObj(<<"X">>, <<Entry(5, With(Lv(<<"L">>), "Assess", <<St("MUST", rNa)>>))>>),
      With(AspectObj(<<"X">>, <<>>), "Relations", <<St("Scope", aYL)>>),
      AspectObj(<<"W">>, <<Entry(0, With(Lv(<<"L">>), "Assess", <<St("WONT", rN)>>))>>) }
NoFile == [syntax |-> "none", file |-> "", obj |-> <<>>]
MakeFiles(f) == {NoFile, BadYaml(f)} \cup {Yaml(f, o) : o \in MakeAspectObjs}

MakeInputs ==
    { [dir |-> d, hasIndex |-> h, indexYAML |-> y, files |-> fs, format |-> fmt] :
        d \in {"missing", "file", "dir"}, h \in BOOLEAN, y \in MakeIndexDocs,
        fs \in {g \in [Yamls -> UNION {MakeFiles(f) : f \in Yamls}] :
                  \A f \in Yamls : g[f] \in MakeFiles(f)},
        fmt \in Formats }

InitMake ==
    /\ input \in MakeInputs
    /\ pc = "stat"
    /\ log = <<>>
    /\ index = <<>>
    /\ aspects = <<>>
    /\ res = Result("new", "", Ok, NoOut)
    /\ exported = NoExport
    /\ html = NewGenerator

Stage(stage, file, r) == [stage |-> stage, file |-> file, ok |-> r.status = "ok"]
Advance(r, next) == IF r.status = "ok" THEN next ELSE "failed"

\* glob("*.yaml") without INDEX.yaml: the files of the directory
aspectFiles == {f \in Yamls : input.files[f].syntax # "none"}
\* the files the loop has not come to yet
Remaining ==
    aspectFiles \ {log[i].file : i \in {j \in 1..Len(log) : log[j].stage = "parseAspect"}}

\* variant: the loop over the files in descending order
NextFileReversed(fs) == CHOOSE f \in fs : \A g \in fs : NameRank(g) <= NameRank(f)

\* .toSorted(): the loop takes the files in ascending order
NextFile(fs) == CHOOSE f \in fs : \A g \in fs : NameRank(f) <= NameRank(g)

\* fs.promises.stat(dir): the path has to exist and to be a directory
MakeStat ==
    /\ pc = "stat"
    /\ pc' = IF input.dir = "dir" THEN "index" ELSE "failed"
    /\ res' = IF input.dir = "dir" THEN res
              ELSE Result("make", "", Raise("Error", PlainErr("rulebook source path")), NoOut)
    /\ UNCHANGED <<index, aspects, exported, input, log>>

\* INDEX.yaml has to be readable; then parseIndex
MakeIndex ==
    /\ pc = "index"
    /\ IF ~input.hasIndex
       THEN /\ pc' = "failed"
            /\ res' = Result("make", "", Raise("Error", PlainErr("rulebook index not found")),
                             NoOut)
            /\ UNCHANGED <<index, log>>
       ELSE LET p == parseYamlWithSchema(input.indexYAML, "index")
            IN  /\ index' = IF p.r.status = "ok" THEN p.art ELSE index
                /\ res' = Result("parseIndex", "", p.r, NoOut)
                /\ log' = Append(log, Stage("parseIndex", "INDEX.yaml", p.r))
                /\ pc' = Advance(p.r, "aspects")
    /\ UNCHANGED <<aspects, exported, input>>

\* one turn of the loop over the aspect files: parseAspect
MakeAspect ==
    /\ pc = "aspects" /\ Remaining # {}
    /\ LET f == NextFile(Remaining)
           p == parseYamlWithSchema(input.files[f], "aspect")
       IN  /\ aspects' = IF p.r.status = "ok" THEN aspects \o p.art ELSE aspects
           /\ res' = Result("parseAspect", "", p.r, NoOut)
           /\ log' = Append(log, Stage("parseAspect", f, p.r))
           /\ pc' = Advance(p.r, "aspects")
    /\ UNCHANGED <<index, exported, input>>

\* after the loop: validateCrossRefs
MakeValidate ==
    /\ pc = "aspects" /\ Remaining = {}
    /\ res' = Result("validateCrossRefs", "", validateCrossRefs, NoOut)
    /\ log' = Append(log, Stage("validateCrossRefs", "", validateCrossRefs))
    /\ pc' = Advance(validateCrossRefs, "print")
    /\ UNCHANGED <<index, aspects, exported, input>>

\* formatRulebook: print(format)
MakePrint ==
    /\ pc = "print"
    /\ LET p == print(input.format)
       IN  /\ res' = Result("print", input.format, p, p.out)
           /\ log' = Append(log, Stage("print", "", p))
           /\ pc' = Advance(p, "write")
    /\ UNCHANGED <<index, aspects, exported, input>>

\* fs.promises.writeFile(output, ...)
MakeWrite ==
    /\ pc = "write"
    /\ log' = Append(log, Stage("write", "", Ok))
    /\ pc' = "done"
    /\ UNCHANGED <<index, aspects, res, exported, input>>

NextMake ==
    \/ MakeStat /\ UNCHANGED html
    \/ MakeIndex /\ UNCHANGED html
    \/ MakeAspect /\ UNCHANGED html
    \/ MakeValidate /\ UNCHANGED html
    \/ MakePrint /\ UNCHANGED html
    \/ MakeWrite /\ UNCHANGED html

SpecMake == InitMake /\ [][NextMake]_vars

(***************************************************************************)
(* The builder on its own: a caller drives the root Generator with add,    *)
(* append, open, close and group.  MaxBuild bounds the size of the text    *)
(* at which the caller stops adding to it.                                 *)
(***************************************************************************)
RECURSIVE Size(_)
Size(content) ==
    IF Len(content) = 0 THEN 0
    ELSE LET e == content[1]
         IN  (IF e.kind = "string" THEN Len(e.text) ELSE 1 + Size(e.content))
             + Size(SubSeq(content, 2, Len(content)))

BuildLines == {"a", "b"}
BuildTexts == {"x"}

Bodies ==
    { <<>>,
      <<Call("add", "a", <<>>)>>,
      <<Call("append", "x", <<>>)>>,
      <<Call("add", "a", <<>>), Call("append", "x", <<>>)>>,
      <<Call("group", "", <<Call("append", "x", <<>>)>>), Call("append", "x", <<>>)>>,
      <<Call("append", "x", <<>>), Call("group", "", <<Call("add", "b", <<>>)>>),
        Call("add", "a", <<>>)>> }

InitBuild ==
    /\ index = <<>>
    /\ aspects = <<>>
    /\ res = Result("new", "", Ok, NoOut)
    /\ exported = NoExport
    /\ Idle

Room == Size(html.content) < MaxBuild

BuildFrame == UNCHANGED <<index, aspects, exported, input, pc, log>>

BuildAdd(c) ==
    /\ Room
    /\ html' = add(html, c)
    /\ res' = Result("add", c, Ok, NoOut)
    /\ BuildFrame

BuildAppend(c) ==
    /\ Room
    /\ html' = append(html, c)
    /\ res' = Result("append", c, Ok, NoOut)
    /\ BuildFrame

BuildOpen ==
    /\ Room
    /\ html' = open(html)
    /\ res' = Result("open", "", Ok, NoOut)
    /\ BuildFrame

BuildClose ==
    /\ html' = close(html).g
    /\ res' = Result("close", "", close(html).r, NoOut)
    /\ BuildFrame

BuildGroup(body) ==
    /\ Room
    /\ html' = group(html, GroupOpen, GroupClose, body)
    /\ res' = Result("group", body, Ok, NoOut)
    /\ BuildFrame

Indents == {1, 4}
StartLevels == {0, 2}

BuildRender(indent, level) ==
    /\ html' = html
    /\ res' = Result("render", <<indent, level>>, Ok, render(html, indent, level))
    /\ BuildFrame

NextBuild ==
    \/ \E c \in BuildLines : BuildAdd(c)
    \/ \E c \in BuildTexts : BuildAppend(c)
    \/ BuildOpen
    \/ BuildClose
    \/ \E body \in Bodies : BuildGroup(body)
    \/ \E indent \in Indents, level \in StartLevels : BuildRender(indent, level)

SpecBuild == InitBuild /\ [][NextBuild]_vars

(***************************************************************************)
(* Position of a field in its source (rulebook-parser.ts).  The syntax     *)
(* tree is absent (null) or gives, for a path, nothing, a node without a   *)
(* range, or a node with the offset its range starts at.                   *)
(***************************************************************************)
NoNode == [kind |-> "undefined", start |-> 0]
NoRange == [kind |-> "node", start |-> 0]
Ranged(start) == [kind |-> "range", start |-> start]

\* cst.getIn(path, true)
getIn(cst, path) == cst.nodes[path]

\* the variant that counts the column from 0
getLineColByOffsetZero(yaml, offset) ==
    LET end == IF offset < Len(yaml) THEN offset ELSE Len(yaml)
        lines == Split(SubSeq(yaml, 1, end), "\n")
    IN  [line |-> Len(lines), column |-> Len(lines[Len(lines)])]

\* yaml.substring(0, offset).split("\n")
getLineColByOffset(yaml, offset) ==
    LET end == IF offset < Len(yaml) THEN offset ELSE Len(yaml)
        lines == Split(SubSeq(yaml, 1, end), "\n")
    IN  [line |-> Len(lines), column |-> Len(lines[Len(lines)]) + 1]

\* the loop from i = path.length down to 0; <<>> stands for undefined
RECURSIVE walkUp(_, _, _, _)
walkUp(yaml, cst, path, i) ==
    IF i < 0 THEN <<>>
    ELSE IF getIn(cst, SubSeq(path, 1, i)).kind = "range"
         THEN <<getLineColByOffset(yaml, getIn(cst, SubSeq(path, 1, i)).start)>>
         ELSE walkUp(yaml, cst, path, i - 1)

getLineColByPath(yaml, cst, path) ==
    IF yaml = <<>> THEN <<>>
    ELSE IF cst.null THEN <<>>
    ELSE walkUp(yaml, cst, path, Len(path))

Segments == <<"Assessment", "5", "Assess", "0", "MUST">>
Paths == {SubSeq(Segments, 1, n) : n \in 0..MaxPath}
PrefixesOf(path) == {SubSeq(path, 1, i) : i \in 0..Len(path)}
Nodes == {NoNode, NoRange} \cup {Ranged(n) : n \in 0..MaxYaml}
YamlTexts(n) == UNION {[1..k -> {"a", "\n"}] : k \in 0..n}

\* no tree, or a tree that gives a node for every prefix of the path
Csts(path) ==
    {[null |-> TRUE, nodes |-> <<>>]}
    \cup {[null |-> FALSE, nodes |-> ns] : ns \in [PrefixesOf(path) -> Nodes]}

InitPos ==
    /\ \E p \in Paths, y \in YamlTexts(MaxYaml) : \E c \in Csts(p) :
          input = [yaml |-> y, path |-> p, cst |-> c]
    /\ pc = "path"
    /\ log = <<>>
    /\ index = <<>>
    /\ aspects = <<>>
    /\ res = Result("new", "", Ok, NoOut)
    /\ exported = NoExport
    /\ html = NewGenerator

GetLineColByPath ==
    /\ pc = "path"
    /\ pc' = "done"
    /\ res' = Result("getLineColByPath", "", Ok,
                     getLineColByPath(input.yaml, input.cst, input.path))
    /\ UNCHANGED <<index, aspects, exported, input, log, html>>

NextPos == GetLineColByPath

SpecPos == InitPos /\ [][NextPos]_vars

(***************************************************************************)
(* Properties of the repository, the validator and the serializer, stated  *)
(* in the terms of the specification and checked under Spec.               *)
(***************************************************************************)
Validated == res.op = "validateCrossRefs" /\ index # <<>>
ContextMap == index[1].obj.Context
Relations(a) == IF Has(a.obj, "Relations") THEN a.obj.Relations ELSE <<>>

Levels(a) == {a.obj.Assessment[e].lv : e \in 1..Len(a.obj.Assessment)}
Statements(a) ==
    UNION { {lv.Assess[i] : i \in 1..Len(lv.Assess)} :
            lv \in {l \in Levels(a) : Has(l, "Assess")} }
RelValues(a, keys) ==
    UNION { {rel[k] : k \in DOMAIN rel \cap keys} :
            rel \in {Relations(a)[i] : i \in 1..Len(Relations(a))} }

\* the values of the context-reference-typed fields of an aspect
CtxValues(a) ==
    UNION { {st[k] : k \in DOMAIN st} : st \in Statements(a) }
    \cup RelValues(a, {"Support", "Demand", "Context", "Responsible"})
    \cup {v \in RelValues(a, {"See-Also"}) : StartsWith(v, sCtx)}
\* the values of the aspect-reference-typed fields of an aspect
AspectValues(a) ==
    RelValues(a, {"Scope"})
    \cup {v \in RelValues(a, {"See-Also"}) : StartsWith(v, sAspect)}
AllCtxValues == UNION {CtxValues(aspects[i]) : i \in 1..Len(aspects)}
AllAspectValues == UNION {AspectValues(aspects[i]) : i \in 1..Len(aspects)}

\* v is p, or p followed by "#" and a fragment
Names(v, p) ==
    \/ v = p
    \/ Len(v) > Len(p) + 1 /\ SubSeq(v, 1, Len(p) + 1) = p \o <<"#">>
\* v names an entry <ns>.<name> of the Context map
NamesEntry(v) ==
    \E ns \in DOMAIN ContextMap : \E name \in DOMAIN ContextMap[ns] :
        Names(v, sCtx \o ns \o <<".">> \o name)
\* v names a namespace of the Context map
NamesNamespace(v) == \E ns \in DOMAIN ContextMap : Names(v, sCtx \o ns)

\* v names aspect a, and a level of it when v carries a "#" part
NamesAspect(v, a) ==
    \/ v = sAspect \o a.obj.Id
    \/ \E lv \in Levels(a) : v = sAspect \o a.obj.Id \o <<"#">> \o lv.Id
\* some aspect of the repository is named by v
ResolvesSome(v) == \E i \in 1..Len(aspects) : NamesAspect(v, aspects[i])
\* the first aspect carrying its Id is named by v
ResolvesFirst(v) ==
    \E i \in 1..Len(aspects) :
        /\ NamesAspect(v, aspects[i])
        /\ \A j \in 1..(i - 1) : aspects[j].obj.Id # aspects[i].obj.Id
DuplicateIds == \E i, j \in 1..Len(aspects) : i # j /\ aspects[i].obj.Id = aspects[j].obj.Id

\* C1 as stated: on a repository whose Index is set, where every context
\* reference names an entry of the Context map and every aspect reference
\* names some Aspect of the repository (and with a "#" part a level of that
\* Aspect), validateCrossRefs returns normally.
C1_ResolvableReturns ==
    (Validated /\ (\A v \in AllCtxValues : NamesEntry(v))
               /\ (\A v \in AllAspectValues : ResolvesSome(v)))
    => res.status = "ok"

\* C1 amended: the same, where an aspect reference with a "#" part names a
\* level of the first Aspect of the repository that carries the named Id.
C1_ResolvableFirstReturns ==
    (Validated /\ (\A v \in AllCtxValues : NamesEntry(v))
               /\ (\A v \in AllAspectValues : ResolvesFirst(v)))
    => res.status = "ok"

\* two Aspects share an Id, the later one refers to a level of the first
C1_Witness ==
    /\ Validated /\ res.status = "ok" /\ DuplicateIds
    /\ \E v \in AllCtxValues : v[Len(v) - 1] = "#"
    /\ \E v \in AllAspectValues : \E k \in 1..Len(v) : v[k] = "#"
    /\ \A v \in AllCtxValues : NamesEntry(v)
    /\ \A v \in AllAspectValues : ResolvesFirst(v)

\* C2 as stated: on a repository whose Index is set, when some Assess
\* statement or some Relation Support, Demand, Context or Responsible value
\* (or ctx: See-Also value) names a path that is absent from the Context map,
\* validateCrossRefs raises a ParseError, and one that names a reference
\* names such an absent path.
AbsentCtx(v) == ~NamesEntry(v) /\ ~NamesNamespace(v)
C2_AbsentPathRaises ==
    (Validated /\ \E v \in AllCtxValues : AbsentCtx(v))
    => /\ res.status = "ParseError"
       /\ res.err.kind = "ctx_undefined" =>
             \E v \in AllCtxValues : AbsentCtx(v) /\ Names(v, sCtx \o res.err.ref)

\* the reference an aspect error of validateCrossRefs rejected
AspectErr == Validated /\ res.err.kind \in {"aspect_undefined", "assessment_undefined"}
Rejected ==
    IF res.err.kind = "assessment_undefined"
    THEN sAspect \o res.err.id \o <<"#">> \o res.err.sub
    ELSE sAspect \o res.err.id

C4_RoundTrip ==
    (res.op = "import" /\ res.arg = "exported")
    => /\ res.status = "ok"
       /\ Objs(index) = exported.index
       /\ Objs(aspects) = exported.aspects

\* C5: validateCrossRefs, print and export leave the Index, the Aspect list
\* and every Aspect as they were, whether they return or raise.
C5_ReadOnly ==
    [][res'.op \in {"validateCrossRefs", "print", "export"}
       => index' = index /\ aspects' = aspects]_vars

\* print raised on a repository that holds an Index and two Aspects
C5_Witness ==
    /\ res.op = "print" /\ res.status # "ok"
    /\ index # <<>> /\ Len(aspects) = 2 /\ aspects[1] # aspects[2]

(***************************************************************************)
(* Properties of the card, checked under SpecCard.                         *)
(***************************************************************************)
CardPrint == res.op = "print" /\ res.arg = "card"
CardPrinted == CardPrint /\ res.status = "ok"
Keys(a) == {a.obj.Assessment[e].key : e \in 1..Len(a.obj.Assessment)}
LevelAt(a, k) ==
    a.obj.Assessment[CHOOSE e \in 1..Len(a.obj.Assessment) : a.obj.Assessment[e].key = k].lv
Max(S) == CHOOSE k \in S : \A j \in S : j <= k
Min(S) == CHOOSE k \in S : \A j \in S : k <= j
\* the statements of a level whose value under some key is ctx:Control.msg-CTO
CTOStatements(lv) ==
    IF Has(lv, "Assess")
    THEN {n \in 1..Len(lv.Assess) : \E t \in DOMAIN lv.Assess[n] : lv.Assess[n][t] = sCTO}
    ELSE {}
\* the keys a level holds ctx:Control.msg-CTO under
HeldUnder(lv) ==
    IF Has(lv, "Assess")
    THEN {t \in AssessKeys : \E n \in 1..Len(lv.Assess) :
                                Has(lv.Assess[n], t) /\ lv.Assess[n][t] = sCTO}
    ELSE {}
CTOKeys(a) == {k \in Keys(a) : HeldUnder(LevelAt(a, k)) # {}}
\* every populated level is on the card once, with the tier T gives its key
TiersAre(i, T(_)) ==
    /\ Len(res.out.aspects[i].levels) = Len(aspects[i].obj.Assessment)
    /\ {res.out.aspects[i].levels[e].key : e \in 1..Len(res.out.aspects[i].levels)}
           = Keys(aspects[i])
    /\ \A e \in 1..Len(res.out.aspects[i].levels) :
           res.out.aspects[i].levels[e].type = T(res.out.aspects[i].levels[e].key)

\* the tier of level k by the first statement of the highest level holding one
FirstStatementTier(a, k) ==
    IF CTOKeys(a) = {} \/ k > Max(CTOKeys(a)) THEN "NONE"
    ELSE LET lv == LevelAt(a, Max(CTOKeys(a)))
             st == lv.Assess[Min(CTOStatements(lv))]
             t  == CHOOSE t \in DOMAIN st : st[t] = sCTO
         IN  IF k < Max(CTOKeys(a)) /\ t = "MUST" THEN "NONE" ELSE t

\* C8 as stated: scanning the populated levels from highest to lowest, the
\* first Assess statement whose value is ctx:Control.msg-CTO determines the
\* tier by its key; its level gets that tier, every lower level the same
\* tier, NONE in place of MUST, and every other level NONE.
C8_FirstStatementTier ==
    CardPrinted =>
        \A i \in 1..Len(aspects) :
            TiersAre(i, LAMBDA k : FirstStatementTier(aspects[i], k))

\* the first of WONT, MAY, SHOULD, MUST among the keys of S
FirstType(S) ==
    IF "WONT" \in S THEN "WONT" ELSE IF "MAY" \in S THEN "MAY"
    ELSE IF "SHOULD" \in S THEN "SHOULD" ELSE "MUST"
\* the tier of level k by the nearest level at or above it holding the reference
NearestLevelTier(a, k) ==
    LET above == {j \in CTOKeys(a) : j >= k}
    IN  IF above = {} THEN "NONE"
        ELSE LET t == FirstType(HeldUnder(LevelAt(a, Min(above))))
             IN  IF Min(above) > k /\ t = "MUST" THEN "NONE" ELSE t

\* C8 amended: every level that holds ctx:Control.msg-CTO sets the tier, to
\* the first of WONT, MAY, SHOULD, MUST it holds the reference under; that
\* level gets the tier, every lower level down to the next such level the
\* same tier, NONE in place of MUST, and every level above all of them NONE.
C8_NearestLevelTier ==
    CardPrinted =>
        \A i \in 1..Len(aspects) :
            TiersAre(i, LAMBDA k : NearestLevelTier(aspects[i], k))

\* two levels hold the reference under different keys, a third lies below
C8_Witness ==
    /\ CardPrinted /\ Len(aspects) = 1
    /\ \E k, j \in CTOKeys(aspects[1]) :
          /\ k > j
          /\ HeldUnder(LevelAt(aspects[1], k)) # HeldUnder(LevelAt(aspects[1], j))
          /\ \E l \in Keys(aspects[1]) \ CTOKeys(aspects[1]) : l < j
    /\ TiersAre(1, LAMBDA k : NearestLevelTier(aspects[1], k))

MustThenNone(a, k) == IF k = Max(Keys(a)) THEN "MUST" ELSE "NONE"

\* C9 as stated: when the highest populated level carries a MUST statement
\* targeting ctx:Control.msg-CTO and no lower level carries a statement
\* targeting it, the card gives that level MUST and every lower level NONE.
C9_TopMust ==
    CardPrinted =>
        \A i \in 1..Len(aspects) :
            (/\ Keys(aspects[i]) # {}
             /\ "MUST" \in HeldUnder(LevelAt(aspects[i], Max(Keys(aspects[i]))))
             /\ CTOKeys(aspects[i]) = {Max(Keys(aspects[i]))})
            => TiersAre(i, LAMBDA k : MustThenNone(aspects[i], k))

\* C9 amended: the same when the highest populated level holds the
\* reference under MUST and under no other key.
C9_TopMustOnly ==
    CardPrinted =>
        \A i \in 1..Len(aspects) :
            (/\ Keys(aspects[i]) # {}
             /\ HeldUnder(LevelAt(aspects[i], Max(Keys(aspects[i])))) = {"MUST"}
             /\ CTOKeys(aspects[i]) = {Max(Keys(aspects[i]))})
            => TiersAre(i, LAMBDA k : MustThenNone(aspects[i], k))

C9_Witness ==
    /\ CardPrinted /\ Len(aspects) = 1
    /\ Cardinality(Keys(aspects[1])) >= 3
    /\ HeldUnder(LevelAt(aspects[1], Max(Keys(aspects[1])))) = {"MUST"}
    /\ CTOKeys(aspects[1]) = {Max(Keys(aspects[1]))}
    /\ \E k \in Keys(aspects[1]) : k < Max(Keys(aspects[1]))
                                   /\ Has(LevelAt(aspects[1], k), "Assess")
    /\ TiersAre(1, LAMBDA k : MustThenNone(aspects[1], k))

OptKeys(a) == {k \in Keys(a) : Has(LevelAt(a, k), "Optimize")}
OptimizeErrs == {"first/top Optimize information missing",
                 "second/bottom Optimize information missing"}
\* at least 2 populated levels, fewer than 2 of them with an Optimize label
LacksLabels(a) == Cardinality(Keys(a)) >= 2 /\ Cardinality(OptKeys(a)) < 2
\* the labels of the two highest levels that carry one
TopTwo(a) ==
    [variant |-> "split",
     top |-> LevelAt(a, Max(OptKeys(a))).Optimize,
     bottom |-> LevelAt(a, Max(OptKeys(a) \ {Max(OptKeys(a))})).Optimize]

\* C10: on the card of an Aspect with at least 2 populated levels the top and
\* bottom labels are the first and second Optimize labels in descending key
\* order, and print fails with an error naming the Aspect Id when fewer than
\* 2 populated levels carry one; with 0 or 1 populated level the empty
\* background is rendered without labels and without that error.
C10_OptimizePairing ==
    CardPrint =>
        /\ (Len(aspects) >= 1 /\ LacksLabels(aspects[1]))
           => /\ res.status = "Error"
              /\ res.err.kind \in OptimizeErrs
              /\ res.err.where = aspects[1].obj.Id
        /\ res.err.kind \in OptimizeErrs
           => \E i \in 1..Len(aspects) :
                 LacksLabels(aspects[i]) /\ res.err.where = aspects[i].obj.Id
        /\ res.status = "ok"
           => \A i \in 1..Len(aspects) :
                 res.out.aspects[i].space =
                     IF Cardinality(Keys(aspects[i])) >= 2
                     THEN TopTwo(aspects[i]) ELSE EmptySpace

\* three populated levels, the highest without a label: the labels of the
\* two lower ones are paired
C10_Witness ==
    /\ CardPrinted /\ Len(aspects) = 1
    /\ Cardinality(Keys(aspects[1])) = 3
    /\ OptKeys(aspects[1]) = Keys(aspects[1]) \ {Max(Keys(aspects[1]))}
    /\ res.out.aspects[1].space = TopTwo(aspects[1])
    /\ res.out.aspects[1].space.top # res.out.aspects[1].space.bottom

(***************************************************************************)
(* Properties of the make command, checked under SpecMake.                 *)
(***************************************************************************)
\* the files of the directory in ascending order of their names
SortedFiles ==
    CHOOSE q \in [1..Cardinality(aspectFiles) -> aspectFiles] :
        \A i, j \in 1..Cardinality(aspectFiles) : i < j => NameRank(q[i]) < NameRank(q[j])
\* the stages of a make in the order they are to run
StageOrder ==
    <<[stage |-> "parseIndex", file |-> "INDEX.yaml"]>>
    \o [i \in 1..Cardinality(aspectFiles) |-> [stage |-> "parseAspect", file |-> SortedFiles[i]]]
    \o <<[stage |-> "validateCrossRefs", file |-> ""],
         [stage |-> "print", file |-> ""],
         [stage |-> "write", file |-> ""]>>

\* C7: make runs the stages in the order parseIndex, parseAspect for each
\* aspect file in sorted filename order, validateCrossRefs, print, write; no
\* stage runs after one that failed, and the output is written only when
\* every earlier stage succeeded.
C7_FailFastOrder ==
    /\ Len(log) <= Len(StageOrder)
    /\ \A i \in 1..Len(log) :
          /\ log[i].stage = StageOrder[i].stage
          /\ log[i].file = StageOrder[i].file
          /\ i < Len(log) => log[i].ok
    /\ (log # <<>> /\ ~log[Len(log)].ok) => pc = "failed"
    /\ pc \in {"print", "write", "done"} => Len(aspects) = Cardinality(aspectFiles)
    /\ pc = "done" <=> (log # <<>> /\ log[Len(log)].stage = "write")
    /\ pc = "done" => Len(log) = Len(StageOrder) /\ \A i \in 1..Len(log) : log[i].ok

\* a make of a directory with two aspect files has written its output
C7_Witness ==
    /\ pc = "done" /\ Cardinality(aspectFiles) >= 2
    /\ Len(log) = Len(StageOrder)
    /\ res.op = "print" /\ res.status = "ok" /\ Len(res.out.aspects) >= 2

(***************************************************************************)
(* Order of the levels, checked under SpecCard.                            *)
(***************************************************************************)
\* the Ids of the levels a print emitted for aspect i, in output order
Emitted(i) ==
    IF res.arg = "card"
    THEN [e \in 1..Len(res.out.aspects[i].levels) |-> res.out.aspects[i].levels[e].id]
    ELSE [e \in 1..Len(res.out.aspects[i].prose) |-> res.out.aspects[i].prose[e].id]
\* the populated keys of aspect a whose level has Id id
KeysOfId(a, id) == {k \in Keys(a) : LevelAt(a, k).Id = id}

\* C11: for any populated subset of the level keys, written in any order,
\* card and prose emit levels of the Aspect only, in strictly descending
\* level number, so each populated level at most once and no other level.
C11_DescendingLevels ==
    (res.op = "print" /\ res.status = "ok") =>
        \A i \in 1..Len(aspects) :
            /\ \A e \in 1..Len(Emitted(i)) : KeysOfId(aspects[i], Emitted(i)[e]) # {}
            /\ \A e, f \in 1..Len(Emitted(i)) :
                  e < f => \A k \in KeysOfId(aspects[i], Emitted(i)[e]) :
                              \A j \in KeysOfId(aspects[i], Emitted(i)[f]) : k > j

\* three levels written in an order that is neither ascending nor
\* descending, all of them narrated by the prose format
C11_Witness ==
    /\ res.op = "print" /\ res.arg = "prose" /\ res.status = "ok"
    /\ Len(aspects) = 1 /\ Len(aspects[1].obj.Assessment) >= 3
    /\ aspects[1].obj.Assessment[1].key < aspects[1].obj.Assessment[2].key
    /\ aspects[1].obj.Assessment[3].key < aspects[1].obj.Assessment[2].key
    /\ Len(Emitted(1)) = Len(aspects[1].obj.Assessment)

(***************************************************************************)
(* Properties of the references on the card, checked under Spec.           *)
(***************************************************************************)
\* the text of v after prefix p up to the first "#", and the text after it
PathOf(v, p) ==
    IF FirstIdx(v, "#") = 0 THEN Tail2(v, Len(p))
    ELSE SubSeq(v, Len(p) + 1, FirstIdx(v, "#") - 1)
FragOf(v) == IF FirstIdx(v, "#") = 0 THEN <<>> ELSE Tail2(v, FirstIdx(v, "#"))
\* a context reference of the form ctx:<Ns>.<Name>[#<frag>]
IsNsName(v) ==
    /\ StartsWith(v, sCtx)
    /\ Cardinality({i \in 1..Len(PathOf(v, sCtx)) : PathOf(v, sCtx)[i] = "."}) = 1
NsOf(v) == SubSeq(PathOf(v, sCtx), 1, FirstIdx(PathOf(v, sCtx), ".") - 1)
NameOf(v) == Tail2(PathOf(v, sCtx), FirstIdx(PathOf(v, sCtx), "."))
\* the link the reference v is to render as
LinkFor(v, h) ==
    /\ IsNsName(v) =>
          /\ h.href = <<"#","c","t","x","-">> \o NsOf(v) \o <<"-">> \o NameOf(v)
          /\ h.text = <<NsOf(v), NameOf(v) \o (IF FragOf(v) = <<>> THEN <<>>
                                               ELSE <<" ","#"," ">> \o FragOf(v))>>
    /\ StartsWith(v, sAspect) =>
          h.href = <<"#">> \o PathOf(v, sAspect)
                   \o (IF FragOf(v) = <<>> THEN <<>> ELSE <<"-">> \o FragOf(v))
\* the values of the Relations of a that populate type, in Relation order
RelationValues(a, type) ==
    FlatMap(Len(Relations(a)), LAMBDA n :
        IF Has(Relations(a)[n], type) THEN <<Relations(a)[n][type]>> ELSE <<>>)

\* C12 as stated: on a card, a reference ctx:<Ns>.<Name>[#<frag>] is a link
\* to #ctx-<Ns>-<Name> labelled Ns, Name and ' # frag' when there is a
\* fragment, and a reference aspect:<Id>[#<SubId>] is a link to #<Id> or
\* #<Id>-<SubId>, the parts being those the validator splits the reference into.
C12_LinksAsSplit ==
    CardPrinted =>
        \A i \in 1..Len(aspects) :
            /\ \A e \in 1..Len(res.out.aspects[i].levels) :
                  LET lv == res.out.aspects[i].levels[e]
                  IN  \A n \in 1..Len(lv.assess) :
                         LinkFor(LevelAt(aspects[i], lv.key).Assess[n][lv.assess[n].tag],
                                 lv.assess[n].html)
            /\ \A r \in 1..Len(res.out.aspects[i].relations) :
                  LET row == res.out.aspects[i].relations[r]
                  IN  row.item = "row" =>
                         \A n \in 1..Len(row.refs) :
                            LinkFor(RelationValues(aspects[i], row.type)[n], row.refs[n])

(***************************************************************************)
(* Where a literal of no reference form is rejected, checked under Spec.   *)
(***************************************************************************)
NoForm(v) == ~RefCtx(v) /\ ~RefAspect(v) /\ ~RefURL(v) /\ ~RefMD(v)
\* obj is a valid Aspect but for See-Also values of none of the four forms
BadSeeAlso(obj) ==
    /\ Has(obj, "Relations")
    /\ \E n \in 1..Len(obj.Relations) :
          Has(obj.Relations[n], "See-Also") /\ NoForm(obj.Relations[n]["See-Also"])
    /\ AspectSchema([obj EXCEPT !.Relations =
          FlatMap(Len(obj.Relations), LAMBDA n :
             IF Has(obj.Relations[n], "See-Also") /\ NoForm(obj.Relations[n]["See-Also"])
             THEN <<St("See-Also", rMd)>> ELSE <<obj.Relations[n]>>)])

\* C13 as stated: parseAspect and import do not reject an Aspect because a
\* reference-typed field holds a literal of none of the four forms (such as
\* foo:bar); the literal is left for print to reject.
C13_AcceptedUntilPrint ==
    [][/\ \A doc \in AspectDocs :
             (doc.syntax = "ok" /\ BadSeeAlso(doc.obj) /\ ParseAspect(doc))
             => res'.status = "ok"
       /\ \A json \in JsonDocs :
             (/\ json.syntax = "ok" /\ json.index # <<>> /\ json.aspectsIsArray
              /\ IndexSchema(json.index[1])
              /\ \A n \in 1..Len(json.aspects) :
                    AspectSchema(json.aspects[n]) \/ BadSeeAlso(json.aspects[n])
              /\ Import(json, "text"))
             => res'.status = "ok"]_vars
(***************************************************************************)
(* Properties of the builder.                                              *)
(***************************************************************************)
\* the number of scopes that are open
RECURSIVE Depth(_)
Depth(g) == IF g.child THEN 1 + Depth(Child(g)) ELSE 0

\* the deepest open scope
RECURSIVE Focus(_)
Focus(g) == IF g.child THEN Focus(Child(g)) ELSE g

\* every line the builder holds, with the depth of the scope it is in
Lines(g) == renderAt(g.content, 0)

RECURSIVE Pieces(_)
Pieces(lines) ==
    IF Len(lines) = 0 THEN <<>>
    ELSE lines[1].text \o Pieces(SubSeq(lines, 2, Len(lines)))

\* the text a body hands to the builder, in the order of its calls
RECURSIVE Texts(_)
Texts(body) ==
    IF Len(body) = 0 THEN <<>>
    ELSE (IF body[1].op = "group"
          THEN <<GroupOpen>> \o Texts(body[1].body) \o <<GroupClose>>
          ELSE <<body[1].text>>)
         \o Texts(SubSeq(body, 2, Len(body)))

\* C14: a group call returns with the same scopes open as before it; its
\* opening and closing lines are at the depth of the focus scope, after all
\* earlier lines, and everything the body emitted lies between them, deeper.
C14_GroupBalanced ==
    [][res'.op = "group" =>
        LET d == Depth(html)
            old == Lines(html)
            new == Lines(html')
            n == Len(old)
            m == Len(new)
        IN  /\ Depth(html') = d
            /\ m >= n + 2
            /\ SubSeq(new, 1, n) = old
            /\ new[n + 1] = Line(d, <<GroupOpen>>)
            /\ new[m] = Line(d, <<GroupClose>>)
            /\ \A i \in (n + 2)..(m - 1) : new[i].level > d
            /\ Pieces(SubSeq(new, n + 2, m - 1)) = Texts(res'.arg)]_vars

\* a group with a nested group in its body was made inside an open scope
C14_Witness ==
    /\ res.op = "group"
    /\ \E i \in 1..Len(res.arg) : res.arg[i].op = "group"
    /\ Depth(html) >= 1
    /\ Len(Lines(html)) >= 6

\* the k-th scope on the chain of open scopes, the root being the 0-th
RECURSIVE ScopeAt(_, _)
ScopeAt(g, k) == IF k = 0 THEN g ELSE ScopeAt(Child(g), k - 1)

AddsLast ==
    /\ Depth(html') = Depth(html)
    /\ Focus(html').content = Focus(html).content \o <<Str(<<res'.arg>>)>>
    /\ Lines(html') = Lines(html) \o <<Line(Depth(html), <<res'.arg>>)>>

OpensDeeper ==
    /\ Depth(html') = Depth(html) + 1
    /\ Focus(html').content = <<>>
    /\ ScopeAt(html', Depth(html)).content = Focus(html).content \o <<NewGenerator>>
    /\ Lines(html') = Lines(html)

ClosesDeepest ==
    IF Depth(html) = 0
    THEN /\ res'.status = "Error"
         /\ res'.err = PlainErr("already at top-level")
         /\ html' = html
    ELSE /\ res'.status = "ok"
         /\ Depth(html') = Depth(html) - 1
         /\ Focus(html') = [ScopeAt(html, Depth(html) - 1) EXCEPT !.child = FALSE]
         /\ Lines(html') = Lines(html)

\* C15: add puts its line last in the deepest open scope, open creates a
\* child of that scope one level deeper and makes it the focus, close ends
\* exactly the deepest open scope and returns the focus to its parent, and
\* close with no scope open raises 'already at top-level' and changes nothing.
C15_FocusDiscipline ==
    [][/\ res'.op = "add" => AddsLast
       /\ res'.op = "open" => OpensDeeper
       /\ res'.op = "close" => ClosesDeepest]_vars

\* close raised at top level after lines had been added two scopes deep
C15_Witness ==
    /\ res.op = "close"
    /\ res.status = "Error"
    /\ Depth(html) = 0
    /\ \E i \in 1..Len(Lines(html)) : Lines(html)[i].level = 2

\* line j of the rendering is extended by the text, every other line is kept
ExtendsLine(old, new, j, text) ==
    /\ Len(new) = Len(old)
    /\ new[j] = Line(old[j].level, old[j].text \o <<text>>)
    /\ \A i \in 1..Len(old) : i # j => new[i] = old[i]

\* C16: append extends one line of the focus scope, or starts its first
\* line when the scope is empty; every other line, also that of a child
\* scope closed just before, is rendered as it was.
C16_AppendLocal ==
    [][res'.op = "append" =>
        LET old == renderLines(html, 0)
            new == renderLines(html', 0)
        IN  IF Len(Focus(html).content) = 0
            THEN new = old \o <<Line(0, <<res'.arg>>)>>
            ELSE \E j \in 1..Len(old) : ExtendsLine(old, new, j, res'.arg)]_vars

(***************************************************************************)
(* Properties of the repository operations, continued.                     *)
(***************************************************************************)
\* C17: while no Index is set, validateCrossRefs and print fail with an
\* Error that is not a ParseError and has no source position, whatever
\* the aspect list holds.
C17_NoIndexPlainError ==
    (index = <<>> /\ res.op \in {"validateCrossRefs", "print"}) =>
        /\ res.status = "Error"
        /\ res.err.kind = (IF res.op = "print" THEN "index still not loaded"
                           ELSE "index still not available")
        /\ res.err.where = <<>>
        /\ res.err.field = NoField

\* validateCrossRefs was called on a repository with aspects and no index
C17_Witness ==
    /\ index = <<>>
    /\ Len(aspects) >= 1
    /\ res.op = "validateCrossRefs"
    /\ res.status = "Error"

\* the conditions under which an import is said to fail
ImportFails(json) ==
    \/ json.syntax # "ok"
    \/ json.top # "object"
    \/ json.index = <<>>
    \/ ~json.aspectsIsArray
    \/ ~IndexSchema(json.index[1])
    \/ \E i \in 1..Len(json.aspects) : ~AspectSchema(json.aspects[i])

Imported(json) ==
    /\ index' = <<RulebookArtifact(json.index[1])>>
    /\ Len(aspects') = Len(json.aspects)
    /\ \A i \in 1..Len(json.aspects) : aspects'[i] = RulebookArtifact(json.aspects[i])

ImportContract(json) ==
    /\ ImportFails(json) => res'.status = "Error"
    /\ res'.status = "ok" => Imported(json)

\* C18: import fails on malformed JSON, a top level that is no object, an
\* index that is no object, aspects that are no array, and an index or
\* aspect the schema rejects; when it succeeds the repository holds the
\* imported index and exactly the imported aspects, in their order.
C18_ImportContract ==
    [][/\ \A json \in JsonDocs : Import(json, "text") => ImportContract(json)
       /\ (exported.set /\ Import(exported.json, "exported"))
              => ImportContract(exported.json)]_vars

\* a text with two aspects was imported and their order is the given one
C18_Witness ==
    /\ res.op = "import"
    /\ res.arg = "text"
    /\ res.status = "ok"
    /\ Len(aspects) = 2
    /\ aspects[1].obj.Id = <<"Z">>
    /\ aspects[2].obj.Id = <<"X">>

\* findAspectById yields the earliest aspect with the Id, or nothing
FindsEarliest(id) ==
    LET f == findAspectById(id)
    IN  IF \A i \in 1..Len(getAspects) : getAspects[i].obj.Id # id
        THEN f = <<>>
        ELSE \E i \in 1..Len(getAspects) :
                /\ getAspects[i].obj.Id = id
                /\ \A j \in 1..(i - 1) : getAspects[j].obj.Id # id
                /\ f = <<getAspects[i]>>

AskedIds == {getAspects[i].obj.Id : i \in 1..Len(getAspects)} \cup {<<"Z">>}

\* setIndex, addAspect and clearAspects as the parse operations and the
\* caller invoke them
SetsIndex(doc) ==
    (ParseIndex(doc) /\ res'.status = "ok") =>
        getIndex' = <<RulebookArtifact(doc.obj)>> /\ getAspects' = getAspects

AddsAspect(doc) ==
    (ParseAspect(doc) /\ res'.status = "ok") =>
        getAspects' = getAspects \o <<RulebookArtifact(doc.obj)>> /\ getIndex' = getIndex

Clears == ClearAspects => getAspects' = <<>> /\ getIndex' = getIndex

\* C19: getIndex is the index set last, nothing before one is set;
\* getAspects are the aspects added since the last clearAspects, in the
\* order they were added; findAspectById(id) is the earliest of them with
\* that Id, nothing if there is none.
C19_RepositorySemantics ==
    /\ (getIndex = <<>> /\ getAspects = <<>>)
    /\ [](\A id \in AskedIds : FindsEarliest(id))
    /\ [][/\ \A doc \in IndexDocs : SetsIndex(doc)
          /\ \A doc \in AspectDocs : AddsAspect(doc)
          /\ Clears]_vars

\* with an index set, a second, different aspect was added under an Id
\* that is already held
C19_Witness ==
    /\ res.op = "parseAspect"
    /\ res.status = "ok"
    /\ Len(getAspects) = 2
    /\ getAspects[1].obj.Id = getAspects[2].obj.Id
    /\ getAspects[1] # getAspects[2]
    /\ getIndex # <<>>

\* the context references held in the Assess statements of the repository
AssessCtxValues ==
    UNION { UNION { {st[k] : k \in DOMAIN st} : st \in Statements(aspects[i]) } :
            i \in 1..Len(aspects) }

\* C20 as stated: after validateCrossRefs returned normally, every context
\* reference of an Assess statement names a namespace and a name of the
\* Context map of the Index.
C20_AssessCtxPairs ==
    (Validated /\ res.status = "ok") =>
        \A v \in AssessCtxValues : NamesEntry(v)

\* the error of the first check of cs that raises, NoErr when none does
FirstRaised(cs) ==
    LET bad == {i \in 1..Len(cs) : RunCheck(cs[i]).status # "ok"}
    IN  IF bad = {} THEN NoErr
        ELSE RunCheck(cs[CHOOSE i \in bad : \A j \in bad : i <= j]).err

AssessBad(k) == FirstRaised(AssessChecks(aspects[k])) # NoErr
RelationBad(k) == FirstRaised(RelationChecks(aspects[k])) # NoErr
FirstOf(ks) == CHOOSE k \in ks : \A j \in ks : k <= j

\* C21 as stated: the error validateCrossRefs raises is that of the first
\* failing reference when the aspects are walked in repository order, each
\* with its Assess values first and its Relation fields after them.
C21_FirstPerAspect ==
    Validated =>
        LET ks == {k \in 1..Len(aspects) : AssessBad(k) \/ RelationBad(k)}
        IN  IF ks = {} THEN res.status = "ok"
            ELSE res.err = (IF AssessBad(FirstOf(ks))
                            THEN FirstRaised(AssessChecks(aspects[FirstOf(ks)]))
                            ELSE FirstRaised(RelationChecks(aspects[FirstOf(ks)])))

\* C21 amended: the Assess values of all aspects are walked first, in
\* repository order, and the Relation fields of all aspects after them; the
\* error raised is that of the first failing reference in this order.
C21_FirstPerSurface ==
    Validated =>
        LET as == {k \in 1..Len(aspects) : AssessBad(k)}
            rs == {k \in 1..Len(aspects) : RelationBad(k)}
        IN  IF as # {} THEN res.err = FirstRaised(AssessChecks(aspects[FirstOf(as)]))
            ELSE IF rs # {} THEN res.err = FirstRaised(RelationChecks(aspects[FirstOf(rs)]))
            ELSE res.status = "ok"

\* validated with a failing Relation in the first aspect and a failing
\* Assess value in the second
C21_Witness ==
    /\ Validated
    /\ Len(aspects) = 2
    /\ RelationBad(1) /\ ~AssessBad(1)
    /\ AssessBad(2)
    /\ res.err.field.surface = "Assessment"

\* C22 as stated: every Relation of every Aspect the repository holds has
\* exactly one of Scope, Support, Demand, Context, Responsible, See-Also.
C22_OneKeyPerRelation ==
    \A i \in 1..Len(aspects) :
        \A j \in 1..Len(Relations(aspects[i])) :
            Cardinality(DOMAIN Relations(aspects[i])[j] \cap RelationKeys) = 1

\* the text of the lines held in content, walked depth-first from a scope
\* of nesting depth d: each line after indent * (level + d) spaces and
\* before a newline
RECURSIVE Indented(_, _, _, _)
Indented(content, indent, level, d) ==
    IF Len(content) = 0 THEN <<>>
    ELSE LET e == content[1]
         IN  (IF e.kind = "string"
              THEN [i \in 1..(indent * (level + d)) |-> " "] \o e.text \o <<"\n">>
              ELSE Indented(e.content, indent, level, d + 1))
             \o Indented(SubSeq(content, 2, Len(content)), indent, level, d)

Rendered == res.op = "render"

C30_RenderLosesNothing ==
    Rendered => res.out = Indented(html.content, res.arg[1], res.arg[2], 0)

(***************************************************************************)
(* Properties of the prose and of the relations block, checked under Spec. *)
(***************************************************************************)
ProsePrinted == res.op = "print" /\ res.arg = "prose" /\ res.status = "ok"

\* the level has a statement with a MUST, SHOULD or MAY key
Obliged(lv) ==
    /\ Has(lv, "Assess")
    /\ \E n \in 1..Len(lv.Assess) : DOMAIN lv.Assess[n] \cap {"MUST", "SHOULD", "MAY"} # {}

\* the statements of the level that have key t, in statement order, as narrated
NarratedUnder(lv, t) ==
    LET sts == SelectSeq(lv.Assess, LAMBDA st : Has(st, t))
    IN  [n \in 1..Len(sts) |-> [html |-> ref2html(sts[n][t]).html, tag |-> t]]

\* the e-th largest of the keys ks
NthDown(ks, e) == CHOOSE k \in ks : Cardinality({j \in ks : j > k}) = e - 1

\* C24: prose emits a level exactly when one of its Assess statements has a
\* MUST, SHOULD or MAY key, and narrates for it all MUST statements in
\* statement order, then all SHOULD statements, then all MAY statements,
\* and never a WONT value.
C24_ProseObligations ==
    ProsePrinted =>
        \A i \in 1..Len(aspects) :
            LET a == aspects[i]
                ks == {k \in Keys(a) : Obliged(LevelAt(a, k))}
                items == res.out.aspects[i].prose
            IN  /\ Len(items) = Cardinality(ks)
                /\ \A e \in 1..Len(items) :
                      LET lv == LevelAt(a, NthDown(ks, e))
                      IN  /\ items[e].id = lv.Id
                          /\ items[e].narr = NarratedUnder(lv, "MUST")
                                             \o NarratedUnder(lv, "SHOULD")
                                             \o NarratedUnder(lv, "MAY")

\* prose was printed for an aspect with a level that writes a MAY statement
\* before a MUST statement and with a level that has a WONT statement only
C24_Witness ==
    /\ ProsePrinted
    /\ \E i \in 1..Len(aspects) :
          /\ \E lv \in {l \in Levels(aspects[i]) : Has(l, "Assess")} :
                \E m, n \in 1..Len(lv.Assess) :
                    m < n /\ Has(lv.Assess[m], "MAY") /\ Has(lv.Assess[n], "MUST")
          /\ \E lv \in {l \in Levels(aspects[i]) : Has(l, "Assess")} : ~Obliged(lv)

\* the row of relation type t: absent when no Relation populates t, else
\* the references of all Relations that do, in Relation order
RowOf(rels, t) ==
    LET es == SelectSeq(rels, LAMBDA r : Has(r, t))
    IN  IF Len(es) = 0 THEN <<>>
        ELSE <<[item |-> "row", type |-> t,
                refs |-> [k \in 1..Len(es) |-> ref2html(es[k][t]).html]]>>

ColumnBreak == [item |-> "column", type |-> "", refs |-> <<>>]

\* the markup of the block: the column opened, a pair for each row, the
\* column closed and opened again at the break, the column closed
RECURSIVE Markup(_)
Markup(items) ==
    IF Len(items) = 0 THEN <<>>
    ELSE (IF items[1].item = "column" THEN <<"close", "open">> ELSE <<"open", "close">>)
         \o Markup(Tail(items))

Opened(m, n) == Cardinality({k \in 1..n : m[k] = "open"})
Closed(m, n) == Cardinality({k \in 1..n : m[k] = "close"})
Balanced(m) ==
    /\ Opened(m, Len(m)) = Closed(m, Len(m))
    /\ \A n \in 1..Len(m) : Closed(m, n) <= Opened(m, n)

\* C25: the relations block of a card lists the rows Scope, Context,
\* Support, then one column break, then the rows Demand, Responsible,
\* See-Also; a row is there exactly when a Relation populates its type and
\* holds all such entries in Relation order; the markup is balanced.
C25_RelationsBlock ==
    CardPrinted =>
        \A i \in 1..Len(aspects) :
            LET rels == Relations(aspects[i])
                items == res.out.aspects[i].relations
            IN  Len(rels) > 0 =>
                  /\ items = RowOf(rels, "Scope") \o RowOf(rels, "Context")
                             \o RowOf(rels, "Support") \o <<ColumnBreak>>
                             \o RowOf(rels, "Demand") \o RowOf(rels, "Responsible")
                             \o RowOf(rels, "See-Also")
                  /\ Balanced(<<"open">> \o Markup(items) \o <<"close">>)

\* a card was printed for an aspect whose Relations have no Demand and for
\* an aspect with several Relations of one type
C25_Witness ==
    /\ CardPrinted
    /\ \E i \in 1..Len(aspects) :
          /\ Len(Relations(aspects[i])) > 0
          /\ RowOf(Relations(aspects[i]), "Demand") = <<>>
    /\ \E i \in 1..Len(aspects) : \E t \in RelationKeys :
          /\ RowOf(Relations(aspects[i]), t) # <<>>
          /\ Len(RowOf(Relations(aspects[i]), t)[1].refs) >= 2

(***************************************************************************)
(* Properties of the position of a field, checked under SpecPos.           *)
(***************************************************************************)
Resolved == res.op = "getLineColByPath"

\* the lengths of the prefixes of the path whose node has a range
RangedPrefixes ==
    {i \in 0..Len(input.path) : input.cst.nodes[SubSeq(input.path, 1, i)].kind = "range"}

\* line and column of an offset: 1 plus the newlines before it, and 1 plus
\* the characters between the last of them and the offset
LineCol(yaml, offset) ==
    LET end == Min({offset, Len(yaml)})
        nls == {k \in 1..end : yaml[k] = "\n"}
    IN  [line |-> 1 + Cardinality(nls),
         column |-> 1 + (end - (IF nls = {} THEN 0 ELSE Max(nls)))]

\* C26: the position of a path is that of the start of the node at its
\* longest prefix that has a range, as 1-based line and column; it is
\* absent when the text is empty, the tree unavailable or no prefix has a
\* node with a range.
C26_LongestPrefixPosition ==
    Resolved =>
        IF input.yaml = <<>> \/ input.cst.null \/ RangedPrefixes = {}
        THEN res.out = <<>>
        ELSE res.out = <<LineCol(input.yaml,
                           input.cst.nodes[SubSeq(input.path, 1, Max(RangedPrefixes))].start)>>

\* the full path has no range, a shorter prefix and the root have one, and
\* the prefix starts on a later line, after the first column
C26_Witness ==
    /\ Resolved
    /\ ~input.cst.null
    /\ Len(input.path) \notin RangedPrefixes
    /\ Cardinality(RangedPrefixes) >= 2
    /\ res.out # <<>>
    /\ res.out[1].line >= 2
    /\ res.out[1].column >= 2

(***************************************************************************)
(* Properties of the repository operations, continued.                     *)
(***************************************************************************)
ParseFails(doc, schemaOk) == doc.syntax # "ok" \/ ~schemaOk

IndexParsed(doc) ==
    IF ParseFails(doc, doc.syntax = "ok" /\ IndexSchema(doc.obj))
    THEN res'.status = "ParseError" /\ index' = index /\ aspects' = aspects
    ELSE /\ res'.status = "ok"
         /\ index' = <<RulebookArtifact(doc.obj)>>
         /\ aspects' = aspects

AspectParsed(doc) ==
    IF ParseFails(doc, doc.syntax = "ok" /\ AspectSchema(doc.obj))
    THEN res'.status = "ParseError" /\ index' = index /\ aspects' = aspects
    ELSE /\ res'.status = "ok"
         /\ index' = index
         /\ Len(aspects') = Len(aspects) + 1
         /\ SubSeq(aspects', 1, Len(aspects)) = aspects
         /\ aspects'[Len(aspects')] = RulebookArtifact(doc.obj)

\* C27: a parseIndex or parseAspect that fails raises a ParseError and
\* leaves Index and Aspects as they were; a parseAspect that succeeds
\* appends one Aspect and keeps the Index, a parseIndex that succeeds
\* replaces the Index and keeps the Aspects.
C27_ParseFrame ==
    [][/\ \A doc \in IndexDocs : ParseIndex(doc) => IndexParsed(doc)
       /\ \A doc \in AspectDocs : ParseAspect(doc) => AspectParsed(doc)]_vars

\* a parseIndex failed on a repository that holds an index and an aspect
C27_Witness ==
    /\ res.op = "parseIndex"
    /\ res.status = "ParseError"
    /\ index # <<>>
    /\ Len(aspects) >= 1

\* C28 as stated: an import that fails, for whatever reason, leaves the
\* Index and the Aspect list of the repository as they were before it.
C28_ImportAllOrNothing ==
    [][\A json \in JsonDocs :
          (Import(json, "text") /\ res'.status # "ok") =>
              index' = index /\ aspects' = aspects]_vars

\* C29 as stated: on a repository on which validateCrossRefs returns
\* normally, print in card or prose format does not fail with a
\* 'bad reference' error.
C29_ValidatedPrints ==
    (res.op = "print" /\ validateCrossRefs.status = "ok") =>
        res.err.kind # "bad reference"

====
